---- MODULE Spec2Model ----
(***************************************************************************)
(* A model of the map-reduce service of kvothe9991/map-reduce:             *)
(*   - the Chord ring (server/dht/chord.py) and its data layer             *)
(*     (server/dht/data_layer.py), specification Spec;                     *)
(*   - the contested name server wrapper (server/nameserver/nameserver.py),*)
(*     specification SpecNS;                                               *)
(*   - the Master's task bookkeeping (server/nodes/master.py),             *)
(*     specification SpecMaster.                                           *)
(* Addresses are modelled by their host (a number of Hosts): id() hashes   *)
(* the host of a URI only, and the node and its service share the host.    *)
(***************************************************************************)
EXTENDS Integers, Sequences, FiniteSets, TLC

\* ------------------------------------------------------------- bounds
\* Number of hosts.
NumHosts == 3
\* Length of the successor list and of the replicated array (5 in configs.py,
\* scaled down).
DHT_REPLICATION_SIZE == 2
\* Width of an identifier in bits (160 in utils.py, scaled down).
SHA1_BIT_COUNT == 2
\* Number of keys that are not the host string of a host.
NumKeys == 1
\* Number of distinct values.
NumValues == 1
\* Hosts that may die in a run of the ring.
MaxKills == 1
\* insert calls issued by clients in a run of the ring.
MaxInserts == 1
\* Hosts that may die in a run of the name servers.
MaxNSKills == 1
\* Followers that may subscribe to the Master.
NumFollowers == 2
\* Distinct task ids (chunk keys and map output keys).
NumTaskKeys == 2
\* Chunks of the staged request.
NumMapTasks == 1
\* Reduce results the Master may record in a run.
MaxResults == 1
\* Intermediate values a reduce task may collect.
MaxInter == 2
\* Hosts of a Master that may die in a run.
MaxMasterKills == 1
\* Checkpoints the backup loop may write in a run.
MaxBackups == 1
\* Followers that may be terminated in a run.
MaxFollowerKills == 1
\* Attempts of RequestHandler.startup (5 in configs.py, scaled down).
REQUEST_RETRIES == 2
\* Items of a chunk (16 in configs.py, scaled down).
ITEMS_PER_CHUNK == 2
\* Length of the input of a request.
MaxInputLen == 3
\* Distinct items of an input.
NumItems == 2
\* Tasks handed to a follower in a run.
MaxTasks == 2
\* Shards of the chunk of a map task.
NumShards == 2
\* Inserts a caller issues one after the other through one service.
MaxWrites == 3
NumEmitKeys == 2
NumEmitValues == 2
MaxPairs == 2
MaxReports == 2
NumLookups == 2

\* ---------------------------------------------------------- constants
None == 0
AssertionError == -1
CommunicationError == -2
UnboundLocalError == -3
ValueError == -4

Hosts == 1..NumHosts
R == DHT_REPLICATION_SIZE
DHT_FINGER_TABLE_SIZE == SHA1_BIT_COUNT \div 2
M == DHT_FINGER_TABLE_SIZE

RECURSIVE Pow2(_)
Pow2(i) == IF i = 0 THEN 1 ELSE 2 * Pow2(i - 1)

RingSize == Pow2(SHA1_BIT_COUNT)
IdSpace == 0..(RingSize - 1)

\* Keys are strings. HostKeys are the strings that are also the host string
\* of a host (id() gives such a key the id of that host's node); PlainKeys
\* are any other strings.
HostKeys == {1}
PlainKeys == {100 + j : j \in 1..NumKeys}
Keys == HostKeys \cup PlainKeys
Values == 1..NumValues

\* The hash of utils.id: a fixed table standing for SHA-1. URIs hash their
\* host string, so a key equal to a host string collides with that host.
id(key) == IF key \in Hosts THEN key % RingSize
           ELSE (NumHosts + key - 100) % RingSize

\* A mutant of in_arc: the arc is closed at l.
in_arc_closed(x, l, r) == (l <= x /\ x <= r) \/ (l > r /\ (l <= x \/ x <= r))

\* utils.in_arc without its assertion (l # r), which the callers model.
in_arc(x, l, r) == (l < x /\ x <= r) \/ (l > r /\ (l < x \/ x <= r))

\* What a call of utils.in_arc gives: the exception of its assertion, or
\* the value it returns.
in_arc_result(x, l, r) ==
  IF l = r THEN "AssertionError"
  ELSE IF in_arc(x, l, r) THEN "True" ELSE "False"

Min(S) == CHOOSE x \in S : \A y \in S : x <= y
Max(S) == CHOOSE x \in S : \A y \in S : x >= y

EmptyDict == [k \in Keys |-> None]
NoSuccessors == [j \in 1..R |-> None]
NoFingers == [j \in 1..M |-> None]
\* ChordService.__init__: R distinct empty dicts.
NoReplicas == [j \in 1..R |-> EmptyDict]
NoAlias == [j \in 1..R |-> j]

VARIABLES
  \* --- Chord ring and data layer
  host,              \* [Hosts -> {"up", "dead"}]: the host's process
  loop,              \* [Hosts -> BOOLEAN]: _stabilize_thread is running
  predecessor,       \* ChordNode._predecessor
  successors,        \* ChordNode._successors, a list of length R
  finger_table,      \* ChordNode._finger_table, a list of length M
  current_finger,    \* ChordNode._current_finger_
  ring,              \* ChordNode._ring
  ns_ring,           \* what DHT_NAME is bound to in the name server
  items,             \* ChordService._items
  replicated_items,  \* ChordService._replicated_items, a list of R dicts
  repl_alias,        \* which entries of replicated_items are one dict object:
                     \* repl_alias[n][j] is the least index of the same object
  kills,             \* hosts killed so far
  inserts,           \* insert calls issued so far
  hist               \* history: what was retrievable before the last
                     \* membership change of a stable ring

chordVars == <<host, loop, predecessor, successors, finger_table,
               current_finger, ring, ns_ring, items, replicated_items,
               repl_alias, kills, inserts, hist>>

VARIABLES
  nsStatus,   \* [Hosts -> {"off", "starting", "running", "stopped", "dead"}]:
              \* off: NameServer.start not called yet; starting: the daemon of
              \* _start_local_nameserver runs, restore and callbacks not done;
              \* running: _start_local_nameserver has returned; stopped:
              \* _stop_local_nameserver has run; dead: the host died
  uri,        \* NameServer._uri, by host
  registry,   \* the names bound in the daemon of each host
  nsBackup,   \* the value kept under NS_BACKUP_KEY in the DHT
  chordLoop,  \* [Hosts -> BOOLEAN]: the ChordNode loop thread of the host runs
  nsKills,    \* hosts killed so far
  failover    \* history: the only local name server, with both names bound,
              \* has died

nsVars == <<nsStatus, uri, registry, nsBackup, chordLoop, nsKills, failover>>

VARIABLES
  dicts,            \* the dict objects of the Master's task groups:
                    \* [DictIds -> set of task ids], the keys of each object
  map_tasks,        \* Master._map_tasks: which dict object each of pending,
                    \* assigned and completed names
  reduce_tasks,     \* Master._reduce_tasks, likewise
  followers,        \* Master._followers, the busy followers
  idle_followers,   \* Master._idle_followers
  phase,            \* where _master_loop stands: "off" before start, "map",
                    \* "reduce", "done", "crashed" once its thread ended
                    \* on an exception
  master_backup,    \* the value kept under MASTER_BACKUP_KEY in the DHT
  results,          \* Master._results: the reduce task of each value appended
  inter,            \* the values of the dict objects: for each object and
                    \* key the length of the list of intermediate values
                    \* kept under the key (0 for a chunk or an absent key)
  master_kills,     \* how many hosts of a Master have died
  backups,          \* how many checkpoints have been written
  results_key       \* whether the DHT holds a value under RESULTS_KEY

masterVars == <<dicts, map_tasks, reduce_tasks, followers, idle_followers,
                phase, master_backup, results, inter, master_kills, backups,
                results_key>>

VARIABLES
  follower_up       \* whether the process of each follower lives

followerVars == <<follower_up>>

VARIABLES
  last_call         \* history: how the last call of insert, lookup or remove
                    \* with a None key or value ended

callVars == <<last_call>>

VARIABLES
  arc_in,           \* the arguments <<x, l, r>> of a call of in_arc
  arc_out           \* what the call gave, "none" before it

pureVars == <<arc_in, arc_out>>

VARIABLES
  w_service,        \* the service a caller issues its inserts through
  w_issued,         \* the keys of the inserts it has issued, in order; the
                    \* i-th insert carries the value i
  w_pending         \* the inserts whose one-way call has not run yet

writeVars == <<w_service, w_issued, w_pending>>

VARIABLES
  self_task_lock,   \* Follower._task_lock: TRUE when locked
  self_task_id,          \* Follower._task_id (None before the first task)
  self_task_data,        \* Follower._task_data: the task whose data it is
  self_task_type,        \* Follower._task_type: "none", "map" or "reduce"
  self_task_function,    \* Follower._task_function: the task whose function it is
  self_task_result,      \* Follower._task_result: [none |-> TRUE] for None, else
                    \* the list of the calls of the user function that made it
  thread_pc,        \* where the task thread spawned for each task stands
  thread_iter,      \* its iterator over the shards: the data it was made on
                    \* and the next shard
  thread_partial,   \* the value of its call of the user function
  handler_pc,       \* where the handler of an incoming map or reduce stands
  handler_task,     \* the task and the type it was called with
  delivered,        \* how many tasks have been handed to the follower
  reports           \* the report_task calls the follower has sent

taskVars == <<self_task_lock, self_task_id, self_task_data, self_task_type, self_task_function,
              self_task_result, thread_pc, thread_iter, thread_partial,
              handler_pc, handler_task, delivered, reports>>

VARIABLES
  rq_pc,            \* RequestHandler.startup: "idle" before the call,
                    \* "trying" in its loop, "returned" after it
  rq_input,         \* input_data, a list of items
  rq_attempts,      \* how many iterations of the loop have run
  rq_log,           \* how each iteration ended: "ok" or the exception
  rq_result,        \* what startup gave: "none" yet, "true", "false", or
                    \* the exception that left it
  rq_sent,          \* the keys the last iteration sent to the DHT
  staged            \* what the DHT holds under the three staging keys

requestVars == <<rq_pc, rq_input, rq_attempts, rq_log, rq_result, rq_sent,
                 staged>>

VARIABLES
  in_flight,        \* the staging keys whose one-way insert the DHT has
                    \* received and not applied yet
  start_pc,         \* Master.start: "idle" before the call, "no request"
                    \* when it found no request, "started" when it went on
  functions,        \* Master._map_function and _reduce_function: "none" or
                    \* "cached"
  loaded            \* what _get_request_data gave to _map_tasks.pending

stagingVars == <<in_flight, start_pc, functions, loaded>>

VARIABLES
  reduce_pending,   \* Master._reduce_tasks.pending as report_task fills it:
                    \* a dict from keys to lists of values
  map_completed,    \* the ids of the map tasks set as complete
  emitted,          \* history: for each key, the values the reported map
                    \* results hold for it, in the order of the reports
  report_error      \* how the last report_task ended: None or ValueError

aggregateVars == <<reduce_pending, map_completed, emitted, report_error>>

VARIABLES
  items_lock,       \* [Hosts -> lookup or None]: the lookup whose thread
                    \* holds the lock of ChordService._items of the host
  lk_pc,            \* where each lookup is: "idle", "enter" before the with
                    \* block, "forward" in the forwarded call, "replied"
                    \* when that call has returned, "returned", "raised"
  lk_entry,         \* the host on whose service the lookup was called
  lk_owner          \* what _find_successor gave it for its key

lockVars == <<items_lock, lk_pc, lk_entry, lk_owner>>

VARIABLES
  race_calls,       \* the one-way calls the service of the node under watch
                    \* has received from _stabilize and not run yet
  race_k,           \* the argument of the claim_replicated_items among them
  race_issued,      \* whether a tick has issued a claim
  race_expected     \* history: the items of the node with the replicas of
                    \* the dead successors merged, as of the tick

raceVars == <<race_calls, race_k, race_issued, race_expected>>

VARIABLES
  announced         \* [Followers -> BOOLEAN]: _announce_to_master_loop of
                    \* the follower has subscribed and left its loop

announceVars == <<announced>>

\* The state of the models of single mechanisms.
auxVars == <<stagingVars, aggregateVars, lockVars, raceVars, announceVars>>

\* What an action of the ring, of the name servers, of the Master, of a
\* follower, of the request handler leaves alone.
notChord == <<nsVars, masterVars, followerVars, requestVars, taskVars,
             callVars, pureVars, writeVars, auxVars>>
notNS == <<chordVars, masterVars, followerVars, requestVars, taskVars,
          callVars, pureVars, writeVars, auxVars>>
notMaster == <<chordVars, nsVars, followerVars, requestVars, taskVars,
              callVars, pureVars, writeVars, auxVars>>
notFollower == <<chordVars, nsVars, masterVars, requestVars, taskVars,
                callVars, pureVars, writeVars, auxVars>>
notRequest == <<chordVars, nsVars, masterVars, followerVars, taskVars,
               callVars, pureVars, writeVars, auxVars>>
notTask == <<chordVars, nsVars, masterVars, followerVars, requestVars,
            callVars, pureVars, writeVars, auxVars>>

reachable(addr) == host[addr] = "up"
Up == {h \in Hosts : host[h] = "up"}

\* ------------------------------------------------------------ routing
\* The first entry, in reversed order, of list that is not None, lies in
\* the arc (id(n), x] and is reachable; None when there is none.
LastMatch(list, n, x) ==
  LET I == {j \in DOMAIN list : /\ list[j] # None
                                /\ in_arc(id(list[j]), id(n), x)
                                /\ reachable(list[j])}
  IN IF I = {} THEN None ELSE list[Max(I)]

\* ChordNode.closest_preceding_node. in_arc asserts l # r, and it is called
\* with l = self.id, r = x for the first entry that is not None.
closest_preceding_node(succs, n, x) ==
  IF x = id(n) /\ ((\E j \in 1..M : finger_table[n][j] # None)
                   \/ (\E i \in 1..R : succs[n][i] # None))
  THEN AssertionError
  ELSE LET f == LastMatch(finger_table[n], n, x)
           s == LastMatch(succs[n], n, x)
       IN IF f # None /\ s # None
          THEN (IF in_arc(id(f), id(n), id(s)) THEN s ELSE f)
          ELSE IF f # None THEN f
          ELSE IF s # None THEN s
          ELSE n

\* ChordNode.find_successor on node n, the successor lists being succs.
\* A chain of remote calls longer than fuel ends by the communication
\* timeout.
RECURSIVE find_successor(_, _, _, _)
find_successor(succs, n, x, fuel) ==
  LET s == succs[n][1] IN
  IF s = None \/ s = n THEN n
  ELSE IF in_arc(x, id(n), id(s)) THEN s
  ELSE LET cp == closest_preceding_node(succs, n, x) IN
       IF cp = AssertionError THEN AssertionError
       ELSE IF cp = n THEN n
       ELSE IF fuel = 0 THEN CommunicationError
       ELSE find_successor(succs, cp, x, fuel - 1)

MaxHops == NumHosts + 1

IsError(r) == r < 0

\* --------------------------------------------------------- data layer
\* ChordService.insert on the service of node n; its is the items of every
\* service. An AssertionError of find_successor leaves the handler before
\* anything is stored; a CommunicationError makes _find_successor return
\* None. The forwarded insert runs the same handler on the owner's service.
\* A mutant of assert_value: every value passes.
accept_value(key, value) == None

\* ChordService._assert_key and _assert_value: the exception raised, or None.
assert_key(key) == IF key = None THEN ValueError ELSE None
assert_value(key, value) == IF value = None THEN ValueError ELSE None

RECURSIVE insert(_, _, _, _, _, _, _)
insert(its, succs, n, key, value, safe, fuel) ==
  IF assert_key(key) # None \/ assert_value(key, value) # None THEN its ELSE
  LET addr == find_successor(succs, n, id(key), MaxHops) IN
  IF IsError(addr) THEN its
  ELSE IF addr = n
       THEN (IF ~safe \/ its[n][key] = None
             THEN [its EXCEPT ![n][key] = value] ELSE its)
  ELSE IF reachable(addr) /\ fuel > 0
       THEN insert(its, succs, addr, key, value, safe, fuel - 1)
  ELSE its

\* ChordService.lookup with default = None: the value, None, or the
\* exception that reaches the caller. With an unreachable owner, or none,
\* `value` is never bound and `return value` raises UnboundLocalError.
RECURSIVE lookup(_, _, _)
lookup(n, key, fuel) ==
  IF assert_key(key) # None THEN ValueError ELSE
  LET addr == find_successor(successors, n, id(key), MaxHops) IN
  IF addr = AssertionError THEN AssertionError
  ELSE IF addr = CommunicationError THEN UnboundLocalError
  ELSE IF addr = n THEN items[n][key]
  ELSE IF reachable(addr)
       THEN (IF fuel = 0 THEN CommunicationError
             ELSE lookup(addr, key, fuel - 1))
  ELSE UnboundLocalError

\* ChordService.remove on the service of node n.
RECURSIVE remove(_, _, _, _, _)
remove(its, succs, n, key, fuel) ==
  IF assert_key(key) # None THEN its ELSE
  LET addr == find_successor(succs, n, id(key), MaxHops) IN
  IF IsError(addr) THEN its
  ELSE IF addr = n THEN [its EXCEPT ![n][key] = None]
  ELSE IF reachable(addr) /\ fuel > 0
       THEN remove(its, succs, addr, key, fuel - 1)
  ELSE its

\* The exception insert, lookup or remove raises in the handler of the
\* service that is called, before it looks for the owner; None when the
\* arguments pass.
Raised(op, key, value) ==
  IF assert_key(key) # None THEN ValueError
  ELSE IF op = "insert" THEN assert_value(key, value)
  ELSE None

\* Whether the handler of node n reaches its call on the Proxy of another
\* node's service.
Forwards(n, op, key, value) ==
  /\ Raised(op, key, value) = None
  /\ LET addr == find_successor(successors, n, id(key), MaxHops)
     IN ~IsError(addr) /\ addr # n /\ reachable(addr)

\* The snapshot ChordService.refresh iterates: `data = items` names the very
\* dict that `items.clear()` empties, so the snapshot is empty.
RefreshSnapshot(its, n) == EmptyDict

RECURSIVE InsertAll(_, _, _, _, _)
InsertAll(its, succs, n, data, keys) ==
  IF keys = {} THEN its
  ELSE LET k == CHOOSE k \in keys : TRUE IN
       InsertAll(IF data[k] = None THEN its
                 ELSE insert(its, succs, n, k, data[k], TRUE, MaxHops),
                 succs, n, data, keys \ {k})

\* A mutant of refresh: the items of n and of its successor change places.
refresh_exchange(its, succs, n) ==
  LET s == succs[n][1] IN
  IF s = None THEN its ELSE [its EXCEPT ![n] = its[s], ![s] = its[n]]

\* ChordService.refresh on the service of node n.
refresh(its, succs, n) ==
  LET data == RefreshSnapshot(its, n) IN
  InsertAll([its EXCEPT ![n] = EmptyDict], succs, n, data, Keys)

\* dict.update
Update(d, e) == [k \in Keys |-> IF e[k] # None THEN e[k] ELSE d[k]]

RECURSIVE UpdateAll(_, _, _)
UpdateAll(d, repl, k) ==
  IF k = 0 THEN d ELSE Update(UpdateAll(d, repl, k - 1), repl[k])

\* ChordService.claim_replicated_items(k): the new local items, ...
ClaimItems(n, k) == UpdateAll(items[n], replicated_items[n], k)

\* ... the new replicated list, remainder + [{}] * k, ...
ClaimRepl(n, k) ==
  [j \in 1..R |-> IF j + k <= R THEN replicated_items[n][j + k] ELSE EmptyDict]

\* ... and which of its entries are one object: `[{}] * k` is k references
\* to one new dict.
ClaimAlias(n, k) ==
  [j \in 1..R |->
     IF j + k <= R
     THEN Min({i \in 1..(R - k) : repl_alias[n][i + k] = repl_alias[n][j + k]})
     ELSE R - k + 1]

\* Writing dict d into the object at index i writes every alias of it.
WriteRepl(repl, alias, i, d) ==
  [j \in 1..R |-> IF alias[j] = alias[i] THEN d ELSE repl[j]]

\* ChordService.refresh_replication from index i on: repl.clear() comes
\* before the remote read of succ.items, whose CommunicationError ends the
\* handler.
RECURSIVE refresh_replication(_, _, _, _, _)
refresh_replication(repl, alias, succs, its, i) ==
  IF i > R THEN repl
  ELSE IF succs[i] = None
       THEN refresh_replication(repl, alias, succs, its, i + 1)
  ELSE IF reachable(succs[i])
       THEN refresh_replication(WriteRepl(repl, alias, i, its[succs[i]]),
                                alias, succs, its, i + 1)
  ELSE WriteRepl(repl, alias, i, EmptyDict)

\* ------------------------------------------------- the ring, as it should be
\* The host of S that owns id x: the first one at or clockwise after x.
Owner(S, x) ==
  CHOOSE h \in S : \A g \in S : (id(h) - x) % RingSize <= (id(g) - x) % RingSize

NextIn(S, n) == Owner(S, (id(n) + 1) % RingSize)
PrevIn(S, n) == CHOOSE h \in S : NextIn(S, h) = n

RECURSIVE NthNext(_, _, _)
NthNext(S, n, j) == IF j = 0 THEN n ELSE NextIn(S, NthNext(S, n, j - 1))

\* The hosts of S form a ring on which stabilization has quiesced: every
\* one has joined the registered ring (or is the registered node), runs
\* its loop, and its predecessor, successor list and fingers are the
\* reconciled ones. A node alone has no successor or is its own.
StableAmong(S) ==
  /\ S # {}
  /\ ns_ring # None
  /\ \A n \in S :
       /\ loop[n]
       /\ n = ns_ring \/ ring[n] = ns_ring
       /\ IF Cardinality(S) = 1
          THEN successors[n][1] \in {None, n}
          ELSE /\ successors[n] = [j \in 1..R |-> NthNext(S, n, j)]
               /\ predecessor[n] = PrevIn(S, n)
               /\ finger_table[n] =
                    [j \in 1..M |-> Owner(S, (id(n) + Pow2(j - 1)) % RingSize)]

StableRing == StableAmong(Up)

\* Every replica is the items of the successor it mirrors.
ReplicationFresh ==
  \A n \in Up : \A j \in 1..R :
    successors[n][j] # None => replicated_items[n][j] = items[successors[n][j]]

\* The hosts of S are consecutive on the ring of the hosts that are up.
Consecutive(S) ==
  \E n \in S : S = {NthNext(Up, n, j) : j \in 0..(Cardinality(S) - 1)}

\* What every host of S looks up for each key: the common value, else None.
Retrievable(S) ==
  [k \in Keys |->
     IF \E v \in Values : \A m \in S : lookup(m, k, MaxHops) = v
     THEN lookup(CHOOSE m \in S : TRUE, k, MaxHops) ELSE None]

NoHist == [ev |-> "none", vals |-> EmptyDict]

\* --------------------------------------------------------------- Init
\* main.run_servers has started the process of every host: ChordNode.__init__
\* and ChordService.__init__ have run and the loops are spawned.
ChordInit ==
  /\ host = [h \in Hosts |-> "up"]
  /\ loop = [h \in Hosts |-> TRUE]
  /\ predecessor = [h \in Hosts |-> None]
  /\ successors = [h \in Hosts |-> NoSuccessors]
  /\ finger_table = [h \in Hosts |-> NoFingers]
  /\ current_finger = [h \in Hosts |-> 0]
  /\ ring = [h \in Hosts |-> None]
  /\ ns_ring = None
  /\ items = [h \in Hosts |-> EmptyDict]
  /\ replicated_items = [h \in Hosts |-> NoReplicas]
  /\ repl_alias = [h \in Hosts |-> NoAlias]
  /\ kills = 0
  /\ inserts = 0
  /\ hist = NoHist

\* ------------------------------------------------------------ actions
\* The hosts of S die at once. A dead process has no state left.
Kill(S) ==
  /\ S # {} /\ S \subseteq Up
  /\ kills + Cardinality(S) <= MaxKills
  /\ kills' = kills + Cardinality(S)
  /\ host' = [h \in Hosts |-> IF h \in S THEN "dead" ELSE host[h]]
  /\ loop' = [h \in Hosts |-> IF h \in S THEN FALSE ELSE loop[h]]
  /\ predecessor' = [h \in Hosts |-> IF h \in S THEN None ELSE predecessor[h]]
  /\ successors' = [h \in Hosts |-> IF h \in S THEN NoSuccessors
                                    ELSE successors[h]]
  /\ finger_table' = [h \in Hosts |-> IF h \in S THEN NoFingers
                                      ELSE finger_table[h]]
  /\ current_finger' = [h \in Hosts |-> IF h \in S THEN 0
                                        ELSE current_finger[h]]
  /\ ring' = [h \in Hosts |-> IF h \in S THEN None ELSE ring[h]]
  /\ items' = [h \in Hosts |-> IF h \in S THEN EmptyDict ELSE items[h]]
  /\ replicated_items' = [h \in Hosts |-> IF h \in S THEN NoReplicas
                                          ELSE replicated_items[h]]
  /\ repl_alias' = [h \in Hosts |-> IF h \in S THEN NoAlias
                                    ELSE repl_alias[h]]
  /\ hist' = IF /\ StableRing /\ ReplicationFresh
                /\ Cardinality(Up) > R
                /\ Cardinality(S) <= R - 1 /\ Consecutive(S)
             THEN [ev |-> "fail", vals |-> Retrievable(Up)]
             ELSE NoHist
  /\ UNCHANGED <<ns_ring, inserts>>
  /\ UNCHANGED notChord

\* ChordNode._check_predecessor
CheckPredecessor(n) ==
  /\ host[n] = "up" /\ loop[n]
  /\ predecessor' =
       [predecessor EXCEPT ![n] =
          IF @ # None /\ ~reachable(@) THEN None ELSE @]
  /\ UNCHANGED <<host, loop, successors, finger_table, current_finger, ring,
                 ns_ring, items, replicated_items, repl_alias, kills, inserts,
                 hist>>
  /\ UNCHANGED notChord

\* ChordNode._shift_to_live_successor(k=1): the index its for/else loop
\* ends with. reachable(None) raises ValueError.
ShiftIndex(n) ==
  LET stop == {j \in 2..R : successors[n][j] = None
                            \/ reachable(successors[n][j])}
  IN IF stop = {} THEN R
     ELSE IF successors[n][Min(stop)] = None THEN ValueError
     ELSE Min(stop) - 1

\* A mutant of shift: the None entries are put in front.
shift_pad_left(list, i) ==
  [j \in 1..R |-> IF j <= i THEN None ELSE list[j]]

\* ChordNode._shift_to_live_successor: self._successors[i:] + [None] * i
shift(list, i) ==
  [j \in 1..R |-> IF j + i <= R THEN list[j + i] ELSE None]

\* ChordNode.notify(m) on node s: does s take m as its predecessor.
NotifyAccepts(s, m) ==
  \/ predecessor[s] = None
  \/ ~reachable(predecessor[s])
  \/ in_arc(id(m), id(predecessor[s]), id(s))

\* ChordNode._stabilize, with the one-way calls it makes on its own service
\* (claim_replicated_items, refresh_replication) and the notify it sends.
\* The ValueError of _shift_to_live_successor is not a CommunicationError:
\* _handle_periodic_calls does not catch it and the loop's thread ends.
Stabilize(n) ==
  /\ host[n] = "up" /\ loop[n]
  /\ LET s0 == successors[n][1]
         i == IF s0 # None /\ ~reachable(s0) THEN ShiftIndex(n) ELSE 0
     IN
     IF s0 = None
     THEN /\ successors' = [successors EXCEPT ![n][1] = predecessor[n]]
          /\ UNCHANGED <<loop, predecessor, items, replicated_items, repl_alias>>
     ELSE IF i = ValueError
     THEN /\ loop' = [loop EXCEPT ![n] = FALSE]
          /\ UNCHANGED <<predecessor, successors, items, replicated_items,
                         repl_alias>>
     ELSE
       LET succs1 == shift(successors[n], i)
           items1 == IF i > 0 THEN [items EXCEPT ![n] = ClaimItems(n, i)]
                     ELSE items
           repl1 == IF i > 0 THEN ClaimRepl(n, i) ELSE replicated_items[n]
           alias1 == IF i > 0 THEN ClaimAlias(n, i) ELSE repl_alias[n]
           s1 == succs1[1]
       IN
       IF s1 = None \/ s1 = n
       THEN /\ successors' = [successors EXCEPT ![n] = succs1]
            /\ items' = items1
            /\ replicated_items' = [replicated_items EXCEPT ![n] = repl1]
            /\ repl_alias' = [repl_alias EXCEPT ![n] = alias1]
            /\ UNCHANGED <<loop, predecessor>>
       ELSE
         LET sp == predecessor[s1]
             s2 == IF /\ sp # None /\ reachable(sp)
                      /\ in_arc(id(sp), id(n), id(s1))
                   THEN sp ELSE s1
             succs2 == [j \in 1..R |-> IF j = 1 THEN s2
                                       ELSE successors[s2][j - 1]]
         IN /\ successors' = [successors EXCEPT ![n] = succs2]
            /\ items' = items1
            /\ replicated_items' =
                 [replicated_items EXCEPT
                    ![n] = refresh_replication(repl1, alias1, succs2, items1, 1)]
            /\ repl_alias' = [repl_alias EXCEPT ![n] = alias1]
            /\ predecessor' = [predecessor EXCEPT
                                 ![s2] = IF NotifyAccepts(s2, n) THEN n ELSE @]
            /\ UNCHANGED loop
  /\ UNCHANGED <<host, finger_table, current_finger, ring, ns_ring, kills,
                 inserts, hist>>
  /\ UNCHANGED notChord

\* ChordNode._fix_fingers. An AssertionError of find_successor ends the
\* loop's thread; a CommunicationError is caught by the loop.
FixFingers(n) ==
  /\ host[n] = "up" /\ loop[n]
  /\ LET i == (current_finger[n] + 1) % M
         r == find_successor(successors, n, (id(n) + Pow2(i)) % RingSize,
                             MaxHops)
     IN /\ current_finger' = [current_finger EXCEPT ![n] = i]
        /\ finger_table' = IF IsError(r) THEN finger_table
                           ELSE [finger_table EXCEPT ![n][i + 1] = r]
        /\ loop' = [loop EXCEPT ![n] = (r # AssertionError)]
  /\ UNCHANGED <<host, predecessor, successors, ring, ns_ring, items,
                 replicated_items, repl_alias, kills, inserts, hist>>
  /\ UNCHANGED notChord

\* ChordNode.join(addr) on node n, addr being reachable, with the refresh
\* and refresh_replication it calls on its own service.
Join(n, addr) ==
  LET succs0 == [successors EXCEPT ![n] = NoSuccessors]
      r == find_successor(succs0, addr, id(n), MaxHops)
      succs1 == IF IsError(r) THEN succs0 ELSE [succs0 EXCEPT ![n][1] = r]
      items1 == IF IsError(r) THEN items ELSE refresh(items, succs1, n)
  IN /\ ring' = [ring EXCEPT ![n] = addr]
     /\ predecessor' = [predecessor EXCEPT ![n] = None]
     /\ successors' = succs1
     /\ items' = items1
     /\ replicated_items' =
          IF IsError(r) THEN replicated_items
          ELSE [replicated_items EXCEPT
                  ![n] = refresh_replication(@, repl_alias[n], succs1[n],
                                             items1, 1)]
     /\ loop' = [loop EXCEPT ![n] = (r # AssertionError)]
     /\ hist' = IF StableAmong(Up \ {n})
                THEN [ev |-> "join",
                      vals |-> [k \in Keys |->
                                  IF in_arc(id(k), id(PrevIn(Up, n)), id(n))
                                  THEN Retrievable(Up \ {n})[k] ELSE None]]
                ELSE NoHist
     /\ UNCHANGED <<host, finger_table, current_finger, ns_ring, repl_alias,
                    kills, inserts>>

\* ChordNode._check_ring_availability, the name server being reachable.
CheckRing(n) ==
  /\ host[n] = "up" /\ loop[n]
  /\ IF ns_ring = None
     THEN /\ ns_ring' = n
          /\ UNCHANGED <<host, loop, predecessor, successors, finger_table,
                         current_finger, ring, items, replicated_items,
                         repl_alias, kills, inserts, hist>>
     ELSE IF ns_ring # n /\ ns_ring # ring[n] /\ reachable(ns_ring)
     THEN Join(n, ns_ring)
     ELSE UNCHANGED chordVars
  /\ UNCHANGED notChord

\* A client calls insert(key, value) on the service of host n.
Insert(n, key, value) ==
  /\ host[n] = "up"
  /\ inserts < MaxInserts
  /\ inserts' = inserts + 1
  /\ items' = insert(items, successors, n, key, value, FALSE, MaxHops)
  /\ hist' = [hist EXCEPT !.vals[key] = None]
  /\ UNCHANGED <<host, loop, predecessor, successors, finger_table,
                 current_finger, ring, ns_ring, replicated_items, repl_alias,
                 kills>>
  /\ UNCHANGED notChord

\* ------------------------------------ the service, as its node drives it
\* The successor lists a node can hold: R entries, the first a node, no
\* entry after a None entry.
SuccessorLists ==
  {l \in [1..R -> Hosts \cup {None}] :
     /\ l[1] # None
     /\ \A j \in 1..(R - 1) : l[j] = None => l[j + 1] = None}

\* The node of host n calls claim_replicated_items(k) on its service, as
\* _shift_to_live_successor does after a shift of k places.
ServiceClaim(n, k) ==
  /\ host[n] = "up"
  /\ items' = [items EXCEPT ![n] = ClaimItems(n, k)]
  /\ replicated_items' = [replicated_items EXCEPT ![n] = ClaimRepl(n, k)]
  /\ repl_alias' = [repl_alias EXCEPT ![n] = ClaimAlias(n, k)]
  /\ UNCHANGED <<host, loop, predecessor, successors, finger_table,
                 current_finger, ring, ns_ring, kills, inserts, hist>>
  /\ UNCHANGED notChord

\* The node of host n calls refresh_replication on its service, its
\* successor list being succs by then.
ServiceRefreshReplication(n, succs) ==
  /\ host[n] = "up"
  /\ succs[1] # n
  /\ successors' = [successors EXCEPT ![n] = succs]
  /\ replicated_items' =
       [replicated_items EXCEPT
          ![n] = refresh_replication(@, repl_alias[n], succs, items, 1)]
  /\ UNCHANGED <<host, loop, predecessor, finger_table, current_finger, ring,
                 ns_ring, items, repl_alias, kills, inserts, hist>>
  /\ UNCHANGED notChord

NoLastCall == [made |-> FALSE, error |-> None, forwarded |-> FALSE]

\* A client calls insert, lookup or remove on the service of host n with a
\* None key, or insert with a None value. One such call is followed in a
\* run.
NullCall(n, op, key, value) ==
  /\ host[n] = "up"
  /\ ~last_call.made
  /\ key = None \/ (op = "insert" /\ value = None)
  /\ op # "insert" => value = None
  /\ items' = IF op = "insert"
                THEN insert(items, successors, n, key, value, FALSE, MaxHops)
              ELSE IF op = "remove"
                THEN remove(items, successors, n, key, MaxHops)
              ELSE items
  /\ last_call' = [made |-> TRUE, error |-> Raised(op, key, value),
                   forwarded |-> Forwards(n, op, key, value)]
  /\ UNCHANGED <<host, loop, predecessor, successors, finger_table,
                 current_finger, ring, ns_ring, replicated_items, repl_alias,
                 kills, inserts, hist>>
  /\ UNCHANGED <<nsVars, masterVars, followerVars, requestVars, taskVars,
                 pureVars, writeVars, auxVars>>

\* --------------------------------------------- one caller's one-way inserts
WriteInit ==
  /\ w_service = None
  /\ w_issued = <<>>
  /\ w_pending = {}

\* The caller calls insert(key, i) on its proxy of the service of host n;
\* insert is one-way, so the call returns when the request is sent, and the
\* daemon starts a thread of its own for it.
Write(n, key) ==
  /\ host[n] = "up"
  /\ w_service \in {None, n}
  /\ Len(w_issued) < MaxWrites
  /\ w_service' = n
  /\ w_issued' = Append(w_issued, key)
  /\ w_pending' = w_pending \cup {Len(w_issued) + 1}
  /\ UNCHANGED <<chordVars, nsVars, masterVars, followerVars, requestVars,
                 taskVars, callVars, pureVars, auxVars>>

\* The thread of the i-th insert takes the lock of _items and runs the
\* handler; which of the waiting threads takes the lock first is not
\* determined.
HandleWrite(i) ==
  /\ i \in w_pending
  /\ w_pending' = w_pending \ {i}
  /\ items' = insert(items, successors, w_service, w_issued[i], i, FALSE,
                     MaxHops)
  /\ UNCHANGED <<w_service, w_issued>>
  /\ UNCHANGED <<host, loop, predecessor, successors, finger_table,
                 current_finger, ring, ns_ring, replicated_items, repl_alias,
                 kills, inserts, hist>>
  /\ UNCHANGED <<nsVars, masterVars, followerVars, requestVars, taskVars,
                 callVars, pureVars, auxVars>>

\* ------------------------------------------------------- pure functions
\* The arguments of in_arc are ids, any three of them.
ArcInit ==
  /\ arc_in \in IdSpace \X IdSpace \X IdSpace
  /\ arc_out = "none"

\* No call of in_arc is followed.
ArcIdle ==
  /\ arc_in = <<0, 0, 0>>
  /\ arc_out = "AssertionError"

ArcCall ==
  /\ arc_out = "none"
  /\ arc_out' = in_arc_result(arc_in[1], arc_in[2], arc_in[3])
  /\ UNCHANGED arc_in
  /\ UNCHANGED <<chordVars, nsVars, masterVars, followerVars, requestVars,
                 taskVars, callVars, writeVars, auxVars>>

\* ------------------------------------------------- name server wrapper
\* The names followed in a registry.
NSNames == {"master", "chord.dht"}
EmptyRegistry == [name \in NSNames |-> None]

\* NameServer.is_remote
is_remote(h) == uri[h] # h

\* utils.reachable on the URI of the name server daemon of host d.
nsReachable(d) == d # None /\ nsStatus[d] \in {"starting", "running"}

\* NameServer._locate_nameserver: what Pyro4.locateNS can answer, any of
\* the daemons that run, or None when there is none.
Located ==
  IF \E d \in Hosts : nsReachable(d) THEN {d \in Hosts : nsReachable(d)}
  ELSE {None}

\* Registration of every entry of src without safe, which would overwrite
\* the bindings of dst.
RegisterOver(dst, src) ==
  [name \in NSNames |-> IF src[name] # None THEN src[name] ELSE dst[name]]

\* register(name, addr, safe=True) for every entry of src, into dst: a name
\* already bound raises NamingError, which the callers skip.
RegisterSafe(dst, src) ==
  [name \in NSNames |-> IF dst[name] = None THEN src[name] ELSE dst[name]]

\* The comparison of NameServer._refresh_nameserver turned round: the name
\* server of the lesser id would give way.
DemotesToGreater(curr, new) == id(curr) <= id(new)

\* The comparison of NameServer._refresh_nameserver: the local name server
\* of host curr gives way to the one discovered at host new.
Demotes(curr, new) == id(curr) >= id(new)

NSInit ==
  /\ nsStatus = [h \in Hosts |-> "off"]
  /\ uri = [h \in Hosts |-> None]
  /\ registry = [h \in Hosts |-> EmptyRegistry]
  /\ nsBackup = EmptyRegistry
  /\ chordLoop = [h \in Hosts |-> TRUE]
  /\ nsKills = 0
  /\ failover = FALSE

\* NameServer._start_local_nameserver up to the spawn of the daemon's
\* threads: from here on the daemon is discovered and takes registrations.
StartLocal(h) ==
  /\ nsStatus' = [nsStatus EXCEPT ![h] = "starting"]
  /\ uri' = [uri EXCEPT ![h] = h]
  /\ registry' = [registry EXCEPT ![h] = EmptyRegistry]

\* NameServer.start on host h.
NSStart(h) ==
  /\ nsStatus[h] = "off"
  /\ StartLocal(h)
  /\ UNCHANGED <<nsBackup, chordLoop, nsKills, failover>>
  /\ UNCHANGED notNS

\* The rest of _start_local_nameserver: the registry is restored from the
\* DHT backup with safe=True when the DHT service is reachable (dhtUp),
\* then every delegate is registered under its name without safe and
\* started. The Master is the delegate followed here.
NSStartFinish(h, dhtUp) ==
  /\ nsStatus[h] = "starting"
  /\ nsStatus' = [nsStatus EXCEPT ![h] = "running"]
  /\ LET restored == IF dhtUp THEN RegisterSafe(registry[h], nsBackup)
                     ELSE registry[h]
     IN registry' = [registry EXCEPT ![h] = [restored EXCEPT !["master"] = h]]
  /\ UNCHANGED <<uri, nsBackup, chordLoop, nsKills, failover>>
  /\ UNCHANGED notNS

\* NameServer._backup_nameserver, run by the backup loop of a local name
\* server, the DHT service being reachable.
NSBackup(h) ==
  /\ nsStatus[h] = "running"
  /\ nsBackup' = registry[h]
  /\ UNCHANGED <<nsStatus, uri, registry, chordLoop, nsKills, failover>>
  /\ UNCHANGED notNS

\* NameServer._stop_local_nameserver(forward_to = d)
StopLocal(h, d) ==
  /\ registry' = [registry EXCEPT ![d] = RegisterSafe(@, registry[h]),
                                  ![h] = EmptyRegistry]
  /\ uri' = [uri EXCEPT ![h] = d]
  /\ nsStatus' = [nsStatus EXCEPT ![h] = "stopped"]

\* NameServer._refresh_nameserver on host h, one tick of the contest loop,
\* d being what _locate_nameserver answers.
NSRefresh(h, d) ==
  /\ nsStatus[h] \in {"running", "stopped"}
  /\ d \in Located
  /\ IF is_remote(h)
     THEN IF ~nsReachable(uri[h])
          THEN IF d # None
               THEN /\ uri' = [uri EXCEPT ![h] = d]
                    /\ UNCHANGED <<nsStatus, registry>>
               ELSE StartLocal(h)
          ELSE UNCHANGED <<nsStatus, uri, registry>>
     ELSE IF d # None /\ d # uri[h] /\ Demotes(uri[h], d)
          THEN StopLocal(h, d)
          ELSE UNCHANGED <<nsStatus, uri, registry>>
  /\ UNCHANGED <<nsBackup, chordLoop, nsKills, failover>>
  /\ UNCHANGED notNS

\* ChordNode._check_ring_availability on a started host h, as far as the
\* name server goes: Pyro4.locateNS() is called outside the try, so with no
\* name server its NamingError leaves _handle_periodic_calls, which only
\* catches CommunicationError, and the loop thread ends. With a name server
\* d that does not know DHT_NAME the node registers itself.
NSChordTick(h, d) ==
  /\ nsStatus[h] \notin {"off", "dead"}
  /\ chordLoop[h]
  /\ d \in Located
  /\ IF d = None
     THEN /\ chordLoop' = [chordLoop EXCEPT ![h] = FALSE]
          /\ UNCHANGED registry
     ELSE /\ registry' = [registry EXCEPT
                            ![d]["chord.dht"] = IF @ = None THEN h ELSE @]
          /\ UNCHANGED chordLoop
  /\ UNCHANGED <<nsStatus, uri, nsBackup, nsKills, failover>>
  /\ UNCHANGED notNS

\* Exactly the name server of host h is local.
OnlyLocal(h) == \A g \in Hosts : nsReachable(g) <=> g = h

\* A started host dies with everything that runs on it.
NSKill(h) ==
  /\ nsStatus[h] \notin {"off", "dead"}
  /\ nsKills < MaxNSKills
  /\ nsKills' = nsKills + 1
  /\ nsStatus' = [nsStatus EXCEPT ![h] = "dead"]
  /\ registry' = [registry EXCEPT ![h] = EmptyRegistry]
  /\ chordLoop' = [chordLoop EXCEPT ![h] = FALSE]
  /\ failover' = IF /\ nsStatus[h] = "running" /\ OnlyLocal(h)
                    /\ \A name \in NSNames : registry[h][name] # None
                 THEN TRUE ELSE failover
  /\ UNCHANGED <<uri, nsBackup>>
  /\ UNCHANGED notNS

\* -------------------------------------------------------------- Master
Followers == 1..NumFollowers
\* Task ids are dict keys: the keys of the staged chunks (MapTaskIds) and
\* the output keys of the map function, which become the reduce task ids.
TaskKeys == 1..NumTaskKeys
MapTaskIds == 1..NumMapTasks
\* The keys a map result is reported under: the chunks are keyed map/i by
\* RequestHandler.startup, the output keys are the other strings.
OutKeys == TaskKeys \ MapTaskIds
\* The functions report_task may be called with.
Funcs == {"map", "reduce", "other"}

\* The dict objects. TaskGroup.__init__ has mutable default arguments, so
\* the two groups built by Master.__init__ name the same three objects
\* (1, 2, 3); 4 is the dict _get_request_data returns.
DictIds == {1, 2, 3, 4}
DefaultGroup == [pending |-> 1, assigned |-> 2, completed |-> 3]
NoBackup == [taken |-> FALSE, dicts |-> [o \in DictIds |-> {}],
             map_tasks |-> DefaultGroup, reduce_tasks |-> DefaultGroup,
             followers |-> {}, results |-> <<>>,
             inter |-> [o \in DictIds |-> [k \in TaskKeys |-> 0]]]

\* No dict object holds intermediate values.
NoValues == [o \in DictIds |-> [k \in TaskKeys |-> 0]]

MasterInit ==
  /\ dicts = [o \in DictIds |-> {}]
  /\ map_tasks = DefaultGroup
  /\ reduce_tasks = DefaultGroup
  /\ followers = {}
  /\ idle_followers = {}
  /\ phase = "off"
  /\ master_backup = NoBackup
  /\ results = <<>>
  /\ inter = NoValues
  /\ master_kills = 0
  /\ backups = 0
  /\ results_key = FALSE

\* TaskGroup.reset, for the values.
reset_values(vs, g) ==
  [o \in DictIds |-> IF o \in {g.pending, g.assigned, g.completed}
                     THEN [k \in TaskKeys |-> 0] ELSE vs[o]]

\* TaskGroup.reset_assigned_to_pending, for the values: update overwrites
\* the value of a key that pending has too.
reset_assigned_to_pending_values(ds, vs, g) ==
  LET v1 == [vs EXCEPT ![g.pending] =
               [k \in TaskKeys |-> IF k \in ds[g.assigned]
                                   THEN vs[g.assigned][k] ELSE @[k]]]
  IN [v1 EXCEPT ![g.assigned] = [k \in TaskKeys |-> 0]]

\* TaskGroup.set_as_complete, for the values: the task popped goes under
\* its key in completed.
set_as_complete_values(ds, vs, g, task_id) ==
  IF task_id \in ds[g.pending]
  THEN [[vs EXCEPT ![g.pending][task_id] = 0]
          EXCEPT ![g.completed][task_id] = vs[g.pending][task_id]]
  ELSE IF task_id \in ds[g.assigned]
  THEN [[vs EXCEPT ![g.assigned][task_id] = 0]
          EXCEPT ![g.completed][task_id] = vs[g.assigned][task_id]]
  ELSE vs

\* TaskGroup.any
any(ds, g) == ds[g.pending] # {} \/ ds[g.assigned] # {}

\* TaskGroup.reset
reset(ds, g) ==
  [o \in DictIds |-> IF o \in {g.pending, g.assigned, g.completed} THEN {}
                     ELSE ds[o]]

\* TaskGroup.reset_assigned_to_pending
reset_assigned_to_pending(ds, g) ==
  LET d1 == [ds EXCEPT ![g.pending] = @ \cup ds[g.assigned]]
  IN [d1 EXCEPT ![g.assigned] = {}]

\* TaskGroup.set_as_complete
set_as_complete(ds, g, task_id) ==
  IF task_id \in ds[g.pending]
  THEN LET d1 == [ds EXCEPT ![g.pending] = @ \ {task_id}]
       IN [d1 EXCEPT ![g.completed] = @ \cup {task_id}]
  ELSE IF task_id \in ds[g.assigned]
  THEN LET d1 == [ds EXCEPT ![g.assigned] = @ \ {task_id}]
       IN [d1 EXCEPT ![g.completed] = @ \cup {task_id}]
  ELSE ds

\* Master.start, a request being staged in the DHT: the task groups are
\* loaded from the backup when there is one, else reset and filled with the
\* staged chunks; the loop starts over.
MasterStart ==
  /\ IF master_backup.taken
     THEN LET d1 == reset_assigned_to_pending(master_backup.dicts,
                                              master_backup.map_tasks)
              v1 == reset_assigned_to_pending_values(
                      master_backup.dicts, master_backup.inter,
                      master_backup.map_tasks)
          IN /\ dicts' = reset_assigned_to_pending(
                            d1, master_backup.reduce_tasks)
             /\ inter' = reset_assigned_to_pending_values(
                            d1, v1, master_backup.reduce_tasks)
             /\ map_tasks' = master_backup.map_tasks
             /\ reduce_tasks' = master_backup.reduce_tasks
             /\ followers' = {}
             /\ idle_followers' = master_backup.followers
     ELSE /\ dicts' = [reset(reset(dicts, map_tasks), reduce_tasks)
                         EXCEPT ![4] = MapTaskIds]
          /\ inter' = [reset_values(reset_values(inter, map_tasks),
                                     reduce_tasks)
                         EXCEPT ![4] = [k \in TaskKeys |-> 0]]
          /\ map_tasks' = [map_tasks EXCEPT !.pending = 4]
          /\ UNCHANGED <<reduce_tasks, followers, idle_followers>>
  /\ phase' = "map"
  /\ UNCHANGED <<master_backup, results, master_kills, backups,
                 results_key>>
  /\ UNCHANGED notMaster

\* The backup loop of the Master: the tuple (map dump, reduce dump,
\* followers, busy and idle, results) is inserted under MASTER_BACKUP_KEY in
\* one message, which keeps which dicts are one object.
MasterBackup ==
  /\ phase # "off"
  /\ backups < MaxBackups
  /\ backups' = backups + 1
  /\ master_backup' = [taken |-> TRUE, dicts |-> dicts,
                       map_tasks |-> map_tasks, reduce_tasks |-> reduce_tasks,
                       followers |-> followers \cup idle_followers,
                       results |-> results, inter |-> inter]
  /\ UNCHANGED <<dicts, map_tasks, reduce_tasks, followers, idle_followers,
                 phase, results, inter, master_kills, results_key>>
  /\ UNCHANGED notMaster

\* Master.subscribe
subscribe(f) ==
  /\ idle_followers' = idle_followers \cup {f}
  /\ UNCHANGED <<dicts, map_tasks, reduce_tasks, followers, phase,
                 master_backup, results, inter, master_kills, backups,
                 results_key>>
  /\ UNCHANGED notMaster

\* Master.report_task(follower, task_id, task_func, result); out_key is the
\* key of a map result that unpacks into a pair, None a result that does
\* not, for which the unpacking raises after the task was set complete.
\* Before start both cached functions are None and no function of Funcs
\* matches.
report_task(f, task_id, task_func, out_key) ==
  /\ IF f \in followers
     THEN /\ followers' = followers \ {f}
          /\ idle_followers' = idle_followers \cup {f}
     ELSE UNCHANGED <<followers, idle_followers>>
  /\ IF phase # "off" /\ task_func = "map"
     THEN /\ IF out_key = None
             THEN /\ dicts' = set_as_complete(dicts, map_tasks, task_id)
                  /\ inter' = set_as_complete_values(dicts, inter, map_tasks,
                                                     task_id)
             ELSE LET v1 == set_as_complete_values(dicts, inter, map_tasks,
                                                   task_id)
                  IN /\ v1[reduce_tasks.pending][out_key] < MaxInter
                     /\ dicts' = [set_as_complete(dicts, map_tasks, task_id)
                                    EXCEPT ![reduce_tasks.pending] =
                                             @ \cup {out_key}]
                     /\ inter' = [v1 EXCEPT
                                    ![reduce_tasks.pending][out_key] = @ + 1]
          /\ UNCHANGED results
     ELSE IF phase # "off" /\ task_func = "reduce"
     THEN /\ Len(results) < MaxResults
          /\ dicts' = set_as_complete(dicts, reduce_tasks, task_id)
          /\ inter' = set_as_complete_values(dicts, inter, reduce_tasks,
                                             task_id)
          /\ results' = Append(results, task_id)
     ELSE UNCHANGED <<dicts, results, inter>>
  /\ UNCHANGED <<map_tasks, reduce_tasks, phase, master_backup,
                 master_kills, backups, results_key>>
  /\ UNCHANGED notMaster

\* Master._assign_task(tasks, func): worker is the follower popped from the
\* idle set, up whether it is reachable, task_id the entry popitem takes.
\* The bookkeeping is done before the call worker.do(task, func); Follower
\* exposes map and reduce only, so the call raises AttributeError and the
\* thread of the loop ends ("crashed") until the next start.
AssignTask(g, worker, up, task_id) ==
  /\ worker \in idle_followers
  /\ idle_followers' = idle_followers \ {worker}
  /\ IF up /\ dicts[g.pending] # {}
     THEN /\ task_id \in dicts[g.pending]
          /\ dicts' = [[dicts EXCEPT ![g.pending] = @ \ {task_id}]
                         EXCEPT ![g.assigned] = @ \cup {task_id}]
          /\ inter' = [[inter EXCEPT ![g.pending][task_id] = 0]
                         EXCEPT ![g.assigned][task_id] =
                                  inter[g.pending][task_id]]
          /\ followers' = followers \cup {worker}
          /\ phase' = "crashed"
     ELSE /\ task_id = Min(TaskKeys)
          /\ UNCHANGED <<dicts, inter, followers, phase>>

\* One iteration of Master._master_loop. When the reduce group is empty the
\* loop ends with dht.insert('map-reduce/final-results'), a call without
\* the value: nothing is stored under RESULTS_KEY, and notify_results of
\* the RequestHandler is not called at all.
MasterLoop(worker, up, task_id) ==
  /\ phase \in {"map", "reduce"}
  /\ IF phase = "map"
     THEN IF any(dicts, map_tasks)
          THEN /\ idle_followers # {}
               /\ AssignTask(map_tasks, worker, up, task_id)
          ELSE /\ phase' = "reduce"
               /\ worker = Min(Followers) /\ up /\ task_id = Min(TaskKeys)
               /\ UNCHANGED <<dicts, inter, followers, idle_followers>>
     ELSE IF any(dicts, reduce_tasks)
          THEN /\ idle_followers # {}
               /\ AssignTask(reduce_tasks, worker, up, task_id)
          ELSE /\ phase' = "done"
               /\ worker = Min(Followers) /\ up /\ task_id = Min(TaskKeys)
               /\ UNCHANGED <<dicts, inter, followers, idle_followers>>
  /\ UNCHANGED <<map_tasks, reduce_tasks, master_backup, results,
                 master_kills, backups, results_key>>
  /\ UNCHANGED notMaster

\* The host of the Master dies; the Master that starts next is the object
\* another host built with Master.__init__. The checkpoint stays in the DHT.
MasterKill ==
  /\ phase # "off"
  /\ master_kills < MaxMasterKills
  /\ master_kills' = master_kills + 1
  /\ dicts' = [o \in DictIds |-> {}]
  /\ map_tasks' = DefaultGroup
  /\ reduce_tasks' = DefaultGroup
  /\ followers' = {}
  /\ idle_followers' = {}
  /\ phase' = "off"
  /\ results' = <<>>
  /\ inter' = NoValues
  /\ UNCHANGED <<master_backup, backups, results_key>>
  /\ UNCHANGED notMaster

\* ------------------------------------------------------------ Follower
FollowerInit ==
  /\ follower_up = [f \in Followers |-> TRUE]

\* The process of follower f is terminated: its daemon no longer answers
\* and it sends nothing any more.
FollowerKill(f) ==
  /\ follower_up[f]
  /\ Cardinality({g \in Followers : ~follower_up[g]}) < MaxFollowerKills
  /\ follower_up' = [follower_up EXCEPT ![f] = FALSE]
  /\ UNCHANGED notFollower

\* Follower._announce_to_master_loop of a follower that (re)starts: it
\* subscribes to the Master registered in the name server.
Announce(f) ==
  /\ follower_up[f]
  /\ subscribe(f)

\* The end of Follower._do_task_and_report_results, or any other caller of
\* the exposed report_task on behalf of a living follower.
Report(f, task_id, task_func, out_key) ==
  /\ follower_up[f]
  /\ report_task(f, task_id, task_func, out_key)

\* ------------------------------------------------- the tasks of a follower
\* The tasks a follower is handed, in this order; task k has the id k, the
\* data k (NumShards shards for a map task) and the function k.
Tasks == 1..MaxTasks
Shards == 1..NumShards
NoResult == [none |-> TRUE, calls |-> <<>>]
NoIter == [data |-> None, next |-> 1]
\* A call func(id, shard) of the user function, shard s of the data of
\* task d (s = 0: the whole data, for a reduce task).
Call(id_, func, d, s) == <<id_, func, d, s>>
NoCall == <<None, None, None, 0>>

TaskInit ==
  /\ self_task_lock = FALSE
  /\ self_task_id = None
  /\ self_task_data = None
  /\ self_task_type = "none"
  /\ self_task_function = None
  /\ self_task_result = NoResult
  /\ thread_pc = [t \in Tasks |-> "unborn"]
  /\ thread_iter = [t \in Tasks |-> NoIter]
  /\ thread_partial = [t \in Tasks |-> NoCall]
  /\ handler_pc = "idle"
  /\ handler_task = [task |-> None, type |-> "none"]
  /\ delivered = 0
  /\ reports = {}

\* Follower.map or Follower.reduce is called with task k: the handler
\* enters _acknowledge_task.
Deliver(k, ttype) ==
  /\ handler_pc = "idle"
  /\ k = delivered + 1
  /\ k \in Tasks
  /\ delivered' = k
  /\ handler_task' = [task |-> k, type |-> ttype]
  /\ handler_pc' = "release"
  /\ UNCHANGED <<self_task_lock, self_task_id, self_task_data, self_task_type, self_task_function,
                 self_task_result, thread_pc, thread_iter, thread_partial,
                 reports>>
  /\ UNCHANGED notTask

\* _acknowledge_task: if self._task_lock.locked(): self._task_lock.release()
\* A threading.Lock is released by whoever calls release.
HandlerRelease ==
  /\ handler_pc = "release"
  /\ self_task_lock' = FALSE
  /\ handler_pc' = "join"
  /\ UNCHANGED <<self_task_id, self_task_data, self_task_type, self_task_function, self_task_result,
                 thread_pc, thread_iter, thread_partial, handler_task,
                 delivered, reports>>
  /\ UNCHANGED notTask

\* _acknowledge_task: kill_thread(self._task_thread), which is
\* thread.join(timeout): it returns when the thread has ended or when the
\* timeout has passed, and leaves the thread running.
HandlerJoin ==
  /\ handler_pc = "join"
  /\ handler_pc' = "set"
  /\ UNCHANGED <<self_task_lock, self_task_id, self_task_data, self_task_type, self_task_function,
                 self_task_result, thread_pc, thread_iter, thread_partial,
                 handler_task, delivered, reports>>
  /\ UNCHANGED notTask

\* _acknowledge_task: with self._task_lock: the fields are set for the new
\* task; then the thread of the new task is spawned.
HandlerSet ==
  /\ handler_pc = "set"
  /\ ~self_task_lock
  /\ self_task_type' = handler_task.type
  /\ self_task_id' = handler_task.task
  /\ self_task_data' = handler_task.task
  /\ self_task_function' = handler_task.task
  /\ self_task_result' = NoResult
  /\ thread_pc' = [thread_pc EXCEPT ![handler_task.task] = "start"]
  /\ handler_pc' = "idle"
  /\ UNCHANGED <<self_task_lock, thread_iter, thread_partial, handler_task,
                 delivered, reports>>
  /\ UNCHANGED notTask

\* Leaving "with self._task_lock": the lock is released, whoever took it
\* last; releasing an unlocked lock raises RuntimeError and changes nothing.
LockExit == FALSE

\* _do_task_and_report_results, entry: the thread takes the lock; a map task
\* sets self._task_result = [] and starts iterating over self._task_data, a
\* reduce task goes to its single call.
ThreadStart(t) ==
  /\ thread_pc[t] = "start"
  /\ ~self_task_lock
  /\ self_task_lock' = TRUE
  /\ IF self_task_type = "map"
       THEN /\ self_task_result' = [none |-> FALSE, calls |-> <<>>]
            /\ thread_iter' = [thread_iter EXCEPT
                                 ![t] = [data |-> self_task_data, next |-> 1]]
       ELSE /\ UNCHANGED self_task_result
            /\ thread_iter' = [thread_iter EXCEPT
                                 ![t] = [data |-> self_task_data, next |-> 0]]
  /\ thread_pc' = [thread_pc EXCEPT ![t] = "call"]
  /\ UNCHANGED <<self_task_id, self_task_data, self_task_type,
                 self_task_function, thread_partial, handler_pc,
                 handler_task, delivered, reports>>
  /\ UNCHANGED notTask

\* The user function is called: self._task_function(self._task_id, shard) on
\* the next shard of the iterator of a map task, or
\* self._task_function(self._task_id, self._task_data) for a reduce task.
\* The fields are read when the call is made.  When the shards are
\* exhausted the thread goes on to report.
ThreadCall(t) ==
  /\ thread_pc[t] = "call"
  /\ IF thread_iter[t].next > NumShards
       THEN /\ thread_pc' = [thread_pc EXCEPT ![t] = "report"]
            /\ UNCHANGED thread_partial
       ELSE /\ thread_partial' = [thread_partial EXCEPT ![t] =
                 IF thread_iter[t].next = 0
                   THEN Call(self_task_id, self_task_function,
                             self_task_data, 0)
                   ELSE Call(self_task_id, self_task_function,
                             thread_iter[t].data, thread_iter[t].next)]
            /\ thread_pc' = [thread_pc EXCEPT ![t] = "store"]
  /\ UNCHANGED <<self_task_lock, self_task_id, self_task_data, self_task_type,
                 self_task_function, self_task_result, thread_iter,
                 handler_pc, handler_task, delivered, reports>>
  /\ UNCHANGED notTask

\* The value of the call is stored: self._task_result.extend(partial) for a
\* map task, which raises AttributeError when the field is None and ends
\* the thread through the exit of the with block; self._task_result = ...
\* for a reduce task.
ThreadStore(t) ==
  /\ thread_pc[t] = "store"
  /\ IF thread_iter[t].next = 0
       THEN /\ self_task_result' =
                 [none |-> FALSE, calls |-> <<thread_partial[t]>>]
            /\ thread_pc' = [thread_pc EXCEPT ![t] = "report"]
            /\ UNCHANGED <<thread_iter, self_task_lock>>
       ELSE IF self_task_result.none
         THEN /\ thread_pc' = [thread_pc EXCEPT ![t] = "dead"]
              /\ self_task_lock' = LockExit
              /\ UNCHANGED <<self_task_result, thread_iter>>
         ELSE /\ self_task_result' =
                   [self_task_result EXCEPT
                      !.calls = Append(@, thread_partial[t])]
              /\ thread_iter' = [thread_iter EXCEPT ![t].next = @ + 1]
              /\ thread_pc' = [thread_pc EXCEPT ![t] = "call"]
              /\ UNCHANGED self_task_lock
  /\ UNCHANGED <<self_task_id, self_task_data, self_task_type,
                 self_task_function, thread_partial, handler_pc,
                 handler_task, delivered, reports>>
  /\ UNCHANGED notTask

\* A report of the follower: the fields as they are when it is sent.
ReportOf == [id |-> self_task_id, func |-> self_task_function,
             result |-> self_task_result.calls]

\* _do_task_and_report_results, end: if self._task_result is not None the
\* thread calls master.report_task(self._address, self._task_id,
\* self._task_function, self._task_result); then it leaves the with block.
ThreadReport(t) ==
  /\ thread_pc[t] = "report"
  /\ reports' = IF self_task_result.none THEN reports
                ELSE reports \cup {ReportOf}
  /\ thread_pc' = [thread_pc EXCEPT ![t] = "done"]
  /\ self_task_lock' = LockExit
  /\ UNCHANGED <<self_task_id, self_task_data, self_task_type,
                 self_task_function, self_task_result, thread_iter,
                 thread_partial, handler_pc, handler_task, delivered>>
  /\ UNCHANGED notTask

\* ------------------------------------------------------ RequestHandler
Items == 1..NumItems
\* The lists of at most MaxInputLen items.
Inputs == UNION {[1..n -> Items] : n \in 0..MaxInputLen}
\* The keys startup stages: MASTER_MAP_CODE, MASTER_REDUCE_CODE, MASTER_DATA.
StagingKeys == <<"map-code", "reduce-code", "data">>
NothingStaged == [k \in {"map-code", "reduce-code", "data"} |-> <<"absent">>]

\* One chunk holding the whole list, whatever the size.
chunks_whole(list, size) == [i \in 0..0 |-> list]

\* utils.chunks_from(list, size): { i: list[k:k+size] } for i, k in
\* enumerate(range(0, len(list), size)); chunk i is staged under map/i.
chunks_from(list, size) ==
  [i \in 0..(((Len(list) + size - 1) \div size) - 1) |->
     SubSeq(list, i * size + 1, Min({Len(list), (i + 1) * size}))]

\* What the DHT holds under each staging key after the first n inserts of
\* an iteration (the functions stay serialized; they are not looked into).
StagedAfter(st, n, input) ==
  [k \in DOMAIN st |->
     IF k = "map-code" /\ n >= 1 THEN <<"map_function">>
     ELSE IF k = "reduce-code" /\ n >= 2 THEN <<"reduce_function">>
     ELSE IF k = "data" /\ n >= 3
     THEN <<"chunks", chunks_from(input, ITEMS_PER_CHUNK)>>
     ELSE st[k]]

RequestInit ==
  /\ rq_pc = "idle"
  /\ rq_input = <<>>
  /\ rq_attempts = 0
  /\ rq_log = <<>>
  /\ rq_result = "none"
  /\ rq_sent = {}
  /\ staged = NothingStaged

\* RequestHandler.startup is called with input_data.
Startup(input_data) ==
  /\ rq_pc = "idle"
  /\ rq_pc' = "trying"
  /\ rq_input' = input_data
  /\ UNCHANGED <<rq_attempts, rq_log, rq_result, rq_sent, staged>>
  /\ UNCHANGED notRequest

\* One iteration of the loop of startup. outcome is how it ends: "ok", the
\* NamingError of locateNS or of the lookup of DHT_NAME, which the except
\* clause does not catch, or a CommunicationError after n of the three
\* one-way inserts were sent. After the last iteration startup returns
\* False.
Attempt(outcome, n) ==
  /\ rq_pc = "trying"
  /\ rq_attempts < REQUEST_RETRIES
  /\ rq_attempts' = rq_attempts + 1
  /\ rq_log' = Append(rq_log, outcome)
  /\ outcome \in {"ok", "NamingError", "CommunicationError"}
  /\ outcome = "ok" => n = 3
  /\ outcome = "NamingError" => n = 0
  /\ outcome = "CommunicationError" => n \in 0..2
  /\ rq_sent' = {StagingKeys[i] : i \in 1..n}
  /\ staged' = StagedAfter(staged, n, rq_input)
  /\ IF outcome = "ok"
     THEN rq_pc' = "returned" /\ rq_result' = "true"
     ELSE IF outcome = "NamingError"
     THEN rq_pc' = "returned" /\ rq_result' = "NamingError"
     ELSE IF rq_attempts + 1 = REQUEST_RETRIES
     THEN rq_pc' = "returned" /\ rq_result' = "false"
     ELSE UNCHANGED <<rq_pc, rq_result>>
  /\ UNCHANGED rq_input
  /\ UNCHANGED notRequest

\* ------------------------------------------- staging and Master.start
StagingInit ==
  /\ in_flight = {}
  /\ start_pc = "idle"
  /\ functions = "none"
  /\ loaded = <<"none">>


\* An iteration of the loop of startup that meets no error: insert is
\* one-way, so the three calls return when the requests are sent, in the
\* order map code, reduce code, data, and startup returns True; the DHT
\* applies each in a thread of its own (HandleStage).
AttemptOneWay ==
  /\ rq_pc = "trying"
  /\ rq_attempts < REQUEST_RETRIES
  /\ rq_attempts' = rq_attempts + 1
  /\ rq_log' = Append(rq_log, "ok")
  /\ rq_sent' = {StagingKeys[i] : i \in 1..3}
  /\ in_flight' = {StagingKeys[i] : i \in 1..3}
  /\ rq_pc' = "returned"
  /\ rq_result' = "true"
  /\ UNCHANGED <<rq_input, staged>>
  /\ UNCHANGED <<start_pc, functions, loaded>>
  /\ UNCHANGED <<chordVars, nsVars, masterVars, followerVars, taskVars,
                 callVars, pureVars, writeVars, aggregateVars, lockVars,
                 raceVars, announceVars>>

\* The thread of the one-way insert of key k writes its value.
HandleStage(k) ==
  /\ k \in in_flight
  /\ in_flight' = in_flight \ {k}
  /\ staged' = [staged EXCEPT ![k] = StagedAfter(NothingStaged, 3, rq_input)[k]]
  /\ UNCHANGED <<rq_pc, rq_input, rq_attempts, rq_log, rq_result, rq_sent>>
  /\ UNCHANGED <<start_pc, functions, loaded>>
  /\ UNCHANGED <<chordVars, nsVars, masterVars, followerVars, taskVars,
                 callVars, pureVars, writeVars, aggregateVars, lockVars,
                 raceVars, announceVars>>

\* _get_serialized_functions: None, here the empty tuple, when one of the
\* two blobs is missing.
NoFunctions == <<>>

get_serialized_functions(st) ==
  IF st["map-code"] = <<"absent">> \/ st["reduce-code"] = <<"absent">>
  THEN NoFunctions
  ELSE <<st["map-code"], st["reduce-code"]>>

\* Master.start, as the start-up callback of the name server calls it,
\* once: with no request staged it logs an error and returns; else it
\* caches the functions and, there being no backup, resets the groups and
\* takes what lookup(MASTER_DATA) gives as the pending map tasks. The keys
\* of the pending dict are those of the Master model; loaded keeps the
\* value the lookup gave.
Start ==
  /\ start_pc = "idle"
  /\ ~master_backup.taken
  /\ IF get_serialized_functions(staged) = NoFunctions
     THEN /\ start_pc' = "no request"
          /\ UNCHANGED <<functions, loaded>>
          /\ UNCHANGED masterVars
     ELSE /\ start_pc' = "started"
          /\ functions' = "cached"
          /\ loaded' = staged["data"]
          /\ dicts' = [reset(reset(dicts, map_tasks), reduce_tasks)
                         EXCEPT ![4] = MapTaskIds]
          /\ inter' = [reset_values(reset_values(inter, map_tasks),
                                     reduce_tasks)
                         EXCEPT ![4] = [k \in TaskKeys |-> 0]]
          /\ map_tasks' = [map_tasks EXCEPT !.pending = 4]
          /\ phase' = "map"
          /\ UNCHANGED <<reduce_tasks, followers, idle_followers,
                         master_backup, results, master_kills, backups,
                         results_key>>
  /\ UNCHANGED in_flight
  /\ UNCHANGED <<chordVars, nsVars, followerVars, requestVars, taskVars,
                 callVars, pureVars, writeVars, aggregateVars, lockVars,
                 raceVars, announceVars>>

\* --------------------------------------------- the reports of map tasks
\* The keys and the values a map function emits, and the results a
\* follower reports for a map task: the list of the pairs of all shards.
\* A key k is the 1-tuple <<k>> and a value v the 1-tuple <<v>>, so that
\* they compare with the pairs the unpacking may put in their place.
EmitKeys == {<<k>> : k \in 1..NumEmitKeys}
EmitValues == {<<v>> : v \in 1..NumEmitValues}
EmitPairs == {<<k[1], v[1]>> : k \in EmitKeys, v \in EmitValues}
MapResults == UNION {[1..n -> EmitPairs] : n \in 0..MaxPairs}
ReportIds == 1..MaxReports

AggregateInit ==
  /\ reduce_pending = <<>>
  /\ map_completed = {}
  /\ emitted = [k \in EmitKeys |-> <<>>]
  /\ report_error = None


\* The values of key k in a list of pairs, in order.
RECURSIVE ValuesOf(_, _)
ValuesOf(result, k) ==
  IF result = <<>> THEN <<>>
  ELSE (IF <<Head(result)[1]>> = k THEN << <<Head(result)[2]>> >> ELSE <<>>)
         \o ValuesOf(Tail(result), k)

\* out_key, inter_val = result: the result itself is unpacked as one pair,
\* which raises ValueError unless it has two elements.
unpack_raises(result) == Len(result) # 2

unpack(result) == [out_key |-> result[1], inter_val |-> result[2]]

\* pending.setdefault(out_key, []).append(inter_val)
setdefault_append(pending, out_key, inter_val) ==
  [k \in DOMAIN pending \cup {out_key} |->
     IF k = out_key
     THEN Append(IF k \in DOMAIN pending THEN pending[k] ELSE <<>>, inter_val)
     ELSE pending[k]]

\* report_task(follower, task_id, map function, result), the branch of the
\* map function: the task is set as complete, then the result is unpacked
\* and appended. The move of the follower to the idle set is that of
\* report_task of the Master model.
ReportMap(task_id, result) ==
  /\ task_id \notin map_completed
  /\ map_completed' = map_completed \cup {task_id}
  /\ emitted' = [k \in EmitKeys |-> emitted[k] \o ValuesOf(result, k)]
  /\ IF unpack_raises(result)
     THEN /\ report_error' = ValueError
          /\ UNCHANGED reduce_pending
     ELSE /\ report_error' = None
          /\ reduce_pending' = setdefault_append(reduce_pending,
                                 unpack(result).out_key,
                                 unpack(result).inter_val)
  /\ UNCHANGED <<stagingVars, lockVars, raceVars, announceVars>>
  /\ UNCHANGED <<chordVars, nsVars, masterVars, followerVars, requestVars,
                 taskVars, callVars, pureVars, writeVars>>

\* ------------------------------------------- the lock of _items in lookup
Lookups == 1..NumLookups

LockInit ==
  /\ items_lock = [h \in Hosts |-> None]
  /\ lk_pc = [i \in Lookups |-> "idle"]
  /\ lk_entry = [i \in Lookups |-> None]
  /\ lk_owner = [i \in Lookups |-> None]


lockFrame == <<chordVars, nsVars, masterVars, followerVars, requestVars,
               taskVars, callVars, pureVars, writeVars, stagingVars,
               aggregateVars, raceVars, announceVars>>

\* lookup(key) is called on the service of host e; _find_successor, which
\* runs before the with block, gives the reachable host o.
LookupCall(i, e, o) ==
  /\ lk_pc[i] = "idle"
  /\ lk_pc' = [lk_pc EXCEPT ![i] = "enter"]
  /\ lk_entry' = [lk_entry EXCEPT ![i] = e]
  /\ lk_owner' = [lk_owner EXCEPT ![i] = o]
  /\ UNCHANGED items_lock
  /\ UNCHANGED lockFrame

\* with self._items as items: the lock is acquired. For a key of its own
\* the service reads items, leaves the block and returns; else it calls
\* other.lookup(key, default) on the owner inside the block.
LookupAcquire(i) ==
  /\ lk_pc[i] = "enter"
  /\ items_lock[lk_entry[i]] = None
  /\ IF lk_owner[i] = lk_entry[i]
     THEN /\ lk_pc' = [lk_pc EXCEPT ![i] = "returned"]
          /\ UNCHANGED items_lock
     ELSE /\ lk_pc' = [lk_pc EXCEPT ![i] = "forward"]
          /\ items_lock' = [items_lock EXCEPT ![lk_entry[i]] = i]
  /\ UNCHANGED <<lk_entry, lk_owner>>
  /\ UNCHANGED lockFrame

\* The forwarded lookup on the owner, whose key is its own: it takes the
\* lock of the owner, reads, leaves the block and replies.
LookupRemote(i) ==
  /\ lk_pc[i] = "forward"
  /\ items_lock[lk_owner[i]] = None
  /\ lk_pc' = [lk_pc EXCEPT ![i] = "replied"]
  /\ UNCHANGED <<items_lock, lk_entry, lk_owner>>
  /\ UNCHANGED lockFrame

\* The reply arrives: the with block is left and lookup returns.
LookupReturn(i) ==
  /\ lk_pc[i] = "replied"
  /\ lk_pc' = [lk_pc EXCEPT ![i] = "returned"]
  /\ items_lock' = [items_lock EXCEPT ![lk_entry[i]] = None]
  /\ UNCHANGED <<lk_entry, lk_owner>>
  /\ UNCHANGED lockFrame

\* COMMTIMEOUT passes while the forwarded call waits for the lock of the
\* owner: the proxy raises TimeoutError, the with block is left and the
\* error reaches the caller of lookup.
LookupTimeout(i) ==
  /\ lk_pc[i] = "forward"
  /\ items_lock[lk_owner[i]] # None
  /\ lk_pc' = [lk_pc EXCEPT ![i] = "raised"]
  /\ items_lock' = [items_lock EXCEPT ![lk_entry[i]] = None]
  /\ UNCHANGED <<lk_entry, lk_owner>>
  /\ UNCHANGED lockFrame

\* ------------------------------- the one-way calls of a tick of _stabilize
RaceInit ==
  /\ race_calls = {}
  /\ race_k = 0
  /\ race_issued = FALSE
  /\ race_expected = EmptyDict


raceFrame == <<nsVars, masterVars, followerVars, requestVars, taskVars,
               callVars, pureVars, writeVars, stagingVars, aggregateVars,
               lockVars, announceVars>>

\* The tick of _stabilize of node n that finds its successor dead:
\* _shift_to_live_successor shifts the list by i and sends the one-way
\* claim_replicated_items(i); the list is reconciled with the new
\* successor, the one-way refresh_replication is sent, and the successor
\* is notified. Each one-way call runs on the service in a thread of its
\* own (RunClaim, RunRefresh).
StabilizeOneWay(n) ==
  /\ host[n] = "up" /\ loop[n]
  /\ ~race_issued
  /\ successors[n][1] # None /\ ~reachable(successors[n][1])
  /\ ShiftIndex(n) # ValueError
  /\ LET i == ShiftIndex(n)
         succs1 == shift(successors[n], i)
         s1 == succs1[1]
     IN /\ race_k' = i
        /\ race_issued' = TRUE
        /\ race_expected' = ClaimItems(n, i)
        /\ IF s1 = None \/ s1 = n
           THEN /\ successors' = [successors EXCEPT ![n] = succs1]
                /\ race_calls' = {"claim"}
                /\ UNCHANGED predecessor
           ELSE LET sp == predecessor[s1]
                    s2 == IF /\ sp # None /\ reachable(sp)
                             /\ in_arc(id(sp), id(n), id(s1))
                          THEN sp ELSE s1
                IN /\ successors' =
                        [successors EXCEPT
                           ![n] = [j \in 1..R |->
                                     IF j = 1 THEN s2
                                     ELSE successors[s2][j - 1]]]
                   /\ race_calls' = {"claim", "refresh"}
                   /\ predecessor' =
                        [predecessor EXCEPT
                           ![s2] = IF NotifyAccepts(s2, n) THEN n ELSE @]
  /\ UNCHANGED <<host, loop, finger_table, current_finger, ring, ns_ring,
                 items, replicated_items, repl_alias, kills, inserts, hist>>
  /\ UNCHANGED raceFrame

\* The ticks before: the replicas of n are refreshed from the successor
\* list succs the node has by then.
RefreshBefore(n, succs) ==
  /\ ~race_issued
  /\ ServiceRefreshReplication(n, succs)

\* The thread of claim_replicated_items(race_k) runs on the service of n.
RunClaim(n) ==
  /\ host[n] = "up"
  /\ "claim" \in race_calls
  /\ race_calls' = race_calls \ {"claim"}
  /\ items' = [items EXCEPT ![n] = ClaimItems(n, race_k)]
  /\ replicated_items' = [replicated_items EXCEPT ![n] = ClaimRepl(n, race_k)]
  /\ repl_alias' = [repl_alias EXCEPT ![n] = ClaimAlias(n, race_k)]
  /\ UNCHANGED <<host, loop, predecessor, successors, finger_table,
                 current_finger, ring, ns_ring, kills, inserts, hist>>
  /\ UNCHANGED <<race_k, race_issued, race_expected>>
  /\ UNCHANGED raceFrame

\* The thread of refresh_replication runs on the service of n: it reads
\* the successor list of the node as it is by then.
RunRefresh(n) ==
  /\ host[n] = "up"
  /\ "refresh" \in race_calls
  /\ race_calls' = race_calls \ {"refresh"}
  /\ replicated_items' =
       [replicated_items EXCEPT
          ![n] = refresh_replication(@, repl_alias[n], successors[n],
                                     items, 1)]
  /\ UNCHANGED <<host, loop, predecessor, successors, finger_table,
                 current_finger, ring, ns_ring, items, repl_alias, kills,
                 inserts, hist>>
  /\ UNCHANGED <<race_k, race_issued, race_expected>>
  /\ UNCHANGED raceFrame

\* --------------------------------------- the announce loop of a follower
AnnounceInit ==
  /\ announced = [f \in Followers |-> FALSE]

AuxInit ==
  StagingInit /\ AggregateInit /\ LockInit /\ RaceInit /\ AnnounceInit

\* Follower._announce_to_master_loop, the thread Follower.__init__ spawns:
\* it retries until subscribe on the Master bound in the name server has
\* returned, and then breaks out of the loop for good.
AnnounceOnce(f) ==
  /\ follower_up[f]
  /\ ~announced[f]
  /\ announced' = [announced EXCEPT ![f] = TRUE]
  /\ idle_followers' = idle_followers \cup {f}
  /\ UNCHANGED <<dicts, map_tasks, reduce_tasks, followers, phase,
                 master_backup, results, inter, master_kills, backups,
                 results_key>>
  /\ UNCHANGED <<chordVars, nsVars, followerVars, requestVars, taskVars,
                 callVars, pureVars, writeVars, stagingVars, aggregateVars,
                 lockVars, raceVars>>

\* ------------------------------------------------------ specifications
vars == <<chordVars, nsVars, masterVars, followerVars, requestVars,
          taskVars, callVars, pureVars, writeVars, auxVars>>

\* Everything but the arguments of the calls of the pure functions.
SystemInit ==
  /\ ChordInit /\ NSInit /\ MasterInit /\ FollowerInit /\ RequestInit
  /\ TaskInit
  /\ last_call = NoLastCall
  /\ WriteInit
  /\ AuxInit

Init == SystemInit /\ ArcIdle

Next ==
  \/ \E S \in SUBSET Hosts : Kill(S)
  \/ \E n \in Hosts : CheckPredecessor(n)
  \/ \E n \in Hosts : Stabilize(n)
  \/ \E n \in Hosts : FixFingers(n)
  \/ \E n \in Hosts : CheckRing(n)
  \/ \E n \in Hosts, key \in Keys, value \in Values : Insert(n, key, value)
  \/ \E n \in Hosts, op \in {"insert", "lookup", "remove"},
        key \in Keys \cup {None}, value \in Values \cup {None} :
       NullCall(n, op, key, value)

Spec == Init /\ [][Next]_vars

NSMaintenance ==
  \/ \E h \in Hosts : NSStart(h)
  \/ \E h \in Hosts, dhtUp \in BOOLEAN : NSStartFinish(h, dhtUp)
  \/ \E h \in Hosts : NSBackup(h)
  \/ \E h \in Hosts, d \in Hosts \cup {None} : NSRefresh(h, d)
  \/ \E h \in Hosts, d \in Hosts \cup {None} : NSChordTick(h, d)

NextNS ==
  \/ NSMaintenance
  \/ \E h \in Hosts : NSKill(h)

\* The contest loop and the startup run for as long as the host lives, and
\* every name server that answers is discovered in the end.
FairNS ==
  /\ \A h \in Hosts : WF_vars(NSStart(h))
  /\ \A h \in Hosts : WF_vars(\E dhtUp \in BOOLEAN : NSStartFinish(h, dhtUp))
  /\ \A h \in Hosts, d \in Hosts \cup {None} : WF_vars(NSRefresh(h, d))

SpecNS == Init /\ [][NextNS]_vars /\ FairNS

NextMaster ==
  \/ MasterStart
  \/ MasterKill
  \/ MasterBackup
  \/ \E f \in Followers : Announce(f)
  \/ \E f \in Followers, task_id \in TaskKeys, task_func \in Funcs,
        out_key \in OutKeys \cup {None} :
          Report(f, task_id, task_func, out_key)
  \/ \E worker \in Followers, task_id \in TaskKeys :
        MasterLoop(worker, follower_up[worker], task_id)
  \/ \E f \in Followers : FollowerKill(f)

SpecMaster == Init /\ [][NextMaster]_vars

\* The follower's handler and its task threads, interleaved.
NextFollower ==
  \/ \E k \in Tasks, ttype \in {"map", "reduce"} : Deliver(k, ttype)
  \/ HandlerRelease
  \/ HandlerJoin
  \/ HandlerSet
  \/ \E t \in Tasks : ThreadStart(t)
  \/ \E t \in Tasks : ThreadCall(t)
  \/ \E t \in Tasks : ThreadStore(t)
  \/ \E t \in Tasks : ThreadReport(t)

SpecFollower == Init /\ [][NextFollower]_vars

\* The hosts whose service is driven: the services do not call each other
\* here, so one is followed.
MirrorHosts == {1}

\* The replication calls a node makes on its service, whatever the ring
\* around it has become, and a client's insert.
NextMirror ==
  \/ \E n \in MirrorHosts, k \in 1..R : ServiceClaim(n, k)
  \/ \E n \in MirrorHosts, succs \in SuccessorLists :
       ServiceRefreshReplication(n, succs)
  \/ \E n \in Hosts, key \in Keys, value \in Values : Insert(n, key, value)

SpecMirror == Init /\ [][NextMirror]_vars

\* One caller's inserts through one service and the threads that run them.
NextWrites ==
  \/ \E n \in Hosts, key \in Keys : Write(n, key)
  \/ \E i \in 1..MaxWrites : HandleWrite(i)

SpecWrites == Init /\ [][NextWrites]_vars

\* A call of in_arc on the arguments drawn at the start.
NextArc == ArcCall

InitArc == SystemInit /\ ArcInit

SpecArc == InitArc /\ [][NextArc]_vars

NextRequest ==
  \/ \E input_data \in Inputs : Startup(input_data)
  \/ \E outcome \in {"ok", "NamingError", "CommunicationError"},
        n \in 0..3 : Attempt(outcome, n)

SpecRequest == Init /\ [][NextRequest]_vars

NextStaging ==
  \/ \E input_data \in Inputs : Startup(input_data)
  \/ AttemptOneWay
  \/ \E k \in {"map-code", "reduce-code", "data"} : HandleStage(k)
  \/ Start

SpecStaging == Init /\ [][NextStaging]_vars

NextAggregate ==
  \E task_id \in ReportIds, result \in MapResults : ReportMap(task_id, result)

SpecAggregate == Init /\ [][NextAggregate]_vars

NextLocks ==
  \/ \E i \in Lookups, e \in Hosts, o \in Hosts : LookupCall(i, e, o)
  \/ \E i \in Lookups : LookupAcquire(i)
  \/ \E i \in Lookups : LookupRemote(i)
  \/ \E i \in Lookups : LookupReturn(i)
  \/ \E i \in Lookups : LookupTimeout(i)

SpecLocks == Init /\ [][NextLocks]_vars

\* The service of one node: its replicas are filled from its successors,
\* hosts die, and the tick that finds the successor dead sends its calls.
NextRace ==
  \/ \E S \in SUBSET Hosts : Kill(S)
  \/ \E n \in Hosts, key \in Keys, value \in Values : Insert(n, key, value)
  \/ \E n \in MirrorHosts, succs \in SuccessorLists :
       RefreshBefore(n, succs)
  \/ \E n \in MirrorHosts : StabilizeOneWay(n)
  \/ \E n \in MirrorHosts : RunClaim(n)
  \/ \E n \in MirrorHosts : RunRefresh(n)

SpecRace == Init /\ [][NextRace]_vars

\* The Master, its starts and its loop, and the followers, each announcing
\* itself as its loop does.
NextFollow ==
  \/ MasterStart
  \/ MasterKill
  \/ MasterBackup
  \/ \E f \in Followers : AnnounceOnce(f)
  \/ \E worker \in Followers, task_id \in TaskKeys :
        MasterLoop(worker, follower_up[worker], task_id)
  \/ \E f \in Followers : FollowerKill(f)

SpecFollow == Init /\ [][NextFollow]_vars

\* ------------------------------------------------------- ring properties
\* Every live node's first successor is the next live node clockwise and
\* its predecessor the previous one.
RingConsistent ==
  \A n \in Up : /\ successors[n][1] = NextIn(Up, n)
                /\ predecessor[n] = PrevIn(Up, n)

\* The periodic methods of node n, one iteration of _handle_periodic_calls.
Maintenance(n) ==
  CheckPredecessor(n) \/ Stabilize(n) \/ FixFingers(n) \/ CheckRing(n)

ringVars == <<loop, predecessor, successors, ring, ns_ring>>

\* No periodic method of any node can change the ring any more.
RingQuiescent == ~ENABLED <<\E n \in Hosts : Maintenance(n)>>_ringVars

\* C1: in a quiesced ring, find_successor(x) called on any live node
\* returns the live node that owns x (the first at or clockwise after x),
\* for every id x of the id space, the ids of the live nodes included.
C1_RoutingCorrect ==
  StableRing =>
    \A n \in Up : \A x \in IdSpace :
      find_successor(successors, n, x, MaxHops) = Owner(Up, x)

\* C2: insert(k, v) issued at any service of a quiesced ring makes lookup(k)
\* return v at every service of the ring, for every key k and value v.
C2_RoundTrip ==
  [][\A n \in Hosts : \A k \in Keys : \A v \in Values :
       (StableRing /\ Insert(n, k, v)) =>
         \A m \in Up : lookup(m, k, MaxHops)' = v]_vars

\* C3: in a ring of more than R nodes, after at most R-1 consecutive nodes
\* failed at once and stabilization has completed, every key that every
\* node could look up before the failures is still looked up with its
\* value at every surviving node.
C3_ReplicationSufficient ==
  (hist.ev = "fail" /\ StableRing) =>
    \A k \in Keys : hist.vals[k] # None =>
      \A m \in Up : lookup(m, k, MaxHops) = hist.vals[k]

\* C4: after a node n joined a quiesced ring and stabilization has
\* completed, every key stored before the join whose id lies in
\* (pred(n).id, n.id] is still looked up with its value at every node.
C4_JoinKeepsKeys ==
  (hist.ev = "join" /\ StableRing) =>
    \A k \in Keys : hist.vals[k] # None =>
      \A m \in Up : lookup(m, k, MaxHops) = hist.vals[k]

\* Every live node is the registered node of the ring or has joined it.
AllJoined == \A n \in Up : n = ns_ring \/ ring[n] = ns_ring

\* C5: when membership has stopped changing and the periodic methods have
\* nothing left to change, every live node of the ring has the next live
\* node as its first successor and the previous live node as its
\* predecessor.
C5_EventuallyConsistent ==
  (RingQuiescent /\ AllJoined /\ Cardinality(Up) >= 2) => RingConsistent

\* ------------------------------------------------ name server properties
\* The host with the least id.
MinHost == CHOOSE h \in Hosts : \A g \in Hosts : id(h) <= id(g)

\* The name server of host l is the only local one and every other host is
\* remote and points to it.
OneLocalAt(l) ==
  \A h \in Hosts : /\ uri[h] = l
                   /\ nsStatus[h] = (IF h = l THEN "running" ELSE "stopped")

\* No step of a name server wrapper or of a ring loop can change anything.
NSQuiescent == ~ENABLED <<NSMaintenance>>_nsVars

C7_Failover ==
  (failover /\ NSQuiescent /\ \E h \in Hosts : nsStatus[h] # "dead") =>
    \E h \in Hosts : /\ nsStatus[h] = "running"
                     /\ \A name \in NSNames : registry[h][name] # None

Partitioned(g) ==
  /\ dicts[g.pending] \cap dicts[g.assigned] = {}
  /\ dicts[g.pending] \cap dicts[g.completed] = {}
  /\ dicts[g.assigned] \cap dicts[g.completed] = {}

\* C9: in every state of the Master no task id is in two of the pending,
\* assigned and completed maps of a task group.
C9_TaskPartition == Partitioned(map_tasks) /\ Partitioned(reduce_tasks)

\* C10: no follower is both busy and idle, so that no busy follower is
\* popped from the idle set and handed a second task.
C10_NoDoubleAssignment == followers \cap idle_followers = {}

\* The task groups of the Master, by name.
Group(name) == IF name = "map" THEN map_tasks ELSE reduce_tasks

\* What the restore of Master.start owes to task group g of the checkpoint
\* ck, in the state with dict objects ds and group g2: nothing assigned,
\* every task that was pending or assigned pending, every completed task
\* completed and not pending, so that no tick assigns it again.
Recovered(ck, g, ds, g2) ==
  /\ ds[g2.assigned] = {}
  /\ (ck.dicts[g.pending] \cup ck.dicts[g.assigned]) \subseteq ds[g2.pending]
  /\ ck.dicts[g.completed] \subseteq ds[g2.completed]
  /\ ck.dicts[g.completed] \cap ds[g2.pending] = {}

\* C11: a start of the Master that finds a checkpoint leaves both task
\* groups with an empty assigned map, with every task that was pending or
\* assigned in the checkpoint pending, and with every task that was
\* completed in the checkpoint completed and not up for assignment.
C11_RecoveryOfTaskGroups ==
  [][(MasterStart /\ master_backup.taken) =>
       /\ Recovered(master_backup, master_backup.map_tasks, dicts', map_tasks')
       /\ Recovered(master_backup, master_backup.reduce_tasks, dicts',
                    reduce_tasks')]_vars

\* How many times x occurs in the list seq.
Count(seq, x) == Cardinality({i \in 1..Len(seq) : seq[i] = x})

\* C12: a start of the Master that finds a checkpoint leaves the Master
\* with the followers of the checkpoint (a non-empty set when the
\* checkpoint had any) and with every result recorded in the checkpoint.
C12_CheckpointCarriesResults ==
  [][(MasterStart /\ master_backup.taken) =>
       /\ master_backup.followers \subseteq (followers' \cup idle_followers')
       /\ \A t \in TaskKeys :
            Count(master_backup.results, t) <= Count(results', t)]_vars

\* The tasks of the map group that are completed and nothing else.
MapDone == dicts[map_tasks.completed]
             \ (dicts[map_tasks.pending] \cup dicts[map_tasks.assigned])

\* Key k has intermediate values in the reduce group.
HasInput(k) ==
  \E o \in {reduce_tasks.pending, reduce_tasks.assigned,
             reduce_tasks.completed} : inter[o][k] > 0

\* C13: the output of a map task goes into the reduce inputs once: when a
\* map task is completed and its output key has its value, a further
\* report of the task with that key, as a task that was re-run or reported
\* twice sends, leaves every list of intermediate values as it is.
C13_MapOutputOnce ==
  [][\A f \in Followers, t \in MapTaskIds, k \in OutKeys :
       (/\ phase # "off" /\ t \in MapDone /\ HasInput(k)
        /\ report_task(f, t, "map", k))
         => inter' = inter]_vars

\* C14: with no failure, the loop of the Master ends only when the job is
\* done: both groups have no pending and no assigned task and the results
\* are in the DHT under RESULTS_KEY for the RequestHandler to read.
C14_JobCompletes ==
  (master_kills = 0 /\ phase \in {"crashed", "done"}) =>
    /\ phase = "done"
    /\ ~any(dicts, map_tasks) /\ ~any(dicts, reduce_tasks)
    /\ results_key

\* C15: when a follower was terminated while busy with a task and another
\* one lives and is known to the Master, with no other failure, the loop of the Master ends only
\* when the job is done, the map tasks, the one of the dead follower
\* included, being completed.
C15_FollowerKillTolerated ==
  (/\ master_kills = 0 /\ phase \in {"crashed", "done"}
   /\ \E f \in followers : ~follower_up[f]
   /\ \E f \in followers \cup idle_followers : follower_up[f]) =>
    /\ phase = "done"
    /\ dicts[map_tasks.assigned] = {}
    /\ MapTaskIds \subseteq dicts[map_tasks.completed]

\* The concatenation of the chunks 0..n-1 of ch.
RECURSIVE Concat(_, _)
Concat(ch, n) == IF n = 0 THEN <<>> ELSE Concat(ch, n - 1) \o ch[n - 1]

\* ch is the list input split into chunks of ITEMS_PER_CHUNK items keyed
\* 0, 1, ...: every chunk but the last is full, none is empty, and the
\* chunks in the order of their keys make up the input.
SplitOf(ch, input) ==
  \E n \in 0..Len(input) :
    /\ DOMAIN ch = 0..(n - 1)
    /\ \A i \in DOMAIN ch : /\ Len(ch[i]) >= 1
                             /\ Len(ch[i]) <= ITEMS_PER_CHUNK
                             /\ i < n - 1 => Len(ch[i]) = ITEMS_PER_CHUNK
    /\ Concat(ch, n) = input

Running == {t \in Tasks : thread_pc[t] \in {"call", "store", "report"}}

\* C17: at most one task thread of a follower runs at a time: when a map
\* or reduce arrives while a task thread runs, that thread has stopped
\* before the thread of the new task starts computing.
C17_OneTaskAtATime == Cardinality(Running) <= 1

\* The calls that make the result of task k: its function, under its id, on
\* its data.
BelongsTo(c, k) == c[1] = k /\ c[2] = k /\ c[3] = k

\* C18: every report sent by a follower carries an id, a function and a
\* result of one and the same task; a preempted task contributes nothing
\* to the report of the task that preempted it.
C18_ReportIntegrity ==
  \A r \in reports :
    /\ r.func = r.id
    /\ \A i \in 1..Len(r.result) : BelongsTo(r.result[i], r.id)


\* C19: insert, lookup or remove with a None key, and insert with a None
\* value, is rejected with an error and changes nothing: the items and the
\* replicated items of every service stay as they are and nothing is
\* forwarded to another node.
C19_NullRejected ==
  [][(~last_call.made /\ last_call'.made) =>
       /\ last_call'.error = ValueError
       /\ ~last_call'.forwarded
       /\ items' = items
       /\ replicated_items' = replicated_items]_vars

\* A None call was made on a ring of several nodes that holds an item.
C19_Witness ==
  /\ last_call.made
  /\ last_call.error = ValueError
  /\ \E n \in Up : successors[n][1] \notin {None, n}
  /\ \E n \in Up, k \in Keys : items[n][k] # None


\* C20: refresh is idempotent: on any service, refresh called twice in
\* succession with no ring change in between leaves the items of every
\* node as one call does.
C20_RefreshIdempotent ==
  \A n \in Up :
    LET once == refresh(items, successors, n)
    IN refresh(once, successors, n) = once

\* A node of a ring of several nodes holds an item, and refresh on it
\* changes the items.
C20_Witness ==
  \E n \in Up :
    /\ successors[n][1] \notin {None, n}
    /\ \E k \in Keys : items[n][k] # None
    /\ refresh(items, successors, n) # items


\* How far clockwise from a the id b lies.
Clockwise(a, b) == (b - a + RingSize) % RingSize

\* C21: for l # r, in_arc(x, l, r) is true iff, moving clockwise from l, x
\* is reached strictly after l and no later than r; l = r is rejected.
C21_ArcLaw ==
  arc_out # "none" =>
    LET x == arc_in[1]
        l == arc_in[2]
        r == arc_in[3]
    IN IF l = r THEN arc_out = "AssertionError"
       ELSE /\ arc_out \in {"True", "False"}
            /\ arc_out = "True" <=>
                 (0 < Clockwise(l, x) /\ Clockwise(l, x) <= Clockwise(l, r))

\* in_arc has answered true on an arc that wraps around.
C21_Witness ==
  /\ arc_out = "True"
  /\ arc_in[2] > arc_in[3]
  /\ arc_in[1] <= arc_in[3]


\* What the service of node c shows for key k once its refresh_replication
\* has run again: the key is in its items or in one of its R replicas.
VisibleAfterRefresh(c, k) ==
  \/ items[c][k] # None
  \/ \E j \in 1..R :
       refresh_replication(replicated_items[c], repl_alias[c], successors[c],
                           items, 1)[j][k] # None

\* C22: in a quiesced ring of at most R+1 nodes, a key inserted through the
\* service of the node bound to chord.dht is, after replication has
\* refreshed, in that node's items or in one of its R replicas.
C22_VisibleAtContact ==
  [][\A k \in Keys : \A v \in Values :
       (/\ StableRing /\ Cardinality(Up) <= R + 1
        /\ ns_ring \in Up
        /\ Insert(ns_ring, k, v)) =>
         VisibleAfterRefresh(ns_ring, k)']_vars

\* The same for the keys that are not the host string of a node.
C22_PlainKeys ==
  [][\A k \in PlainKeys : \A v \in Values :
       (/\ StableRing /\ Cardinality(Up) <= R + 1
        /\ ns_ring \in Up
        /\ Insert(ns_ring, k, v)) =>
         VisibleAfterRefresh(ns_ring, k)']_vars


\* The last insert the caller issued for key k, 0 when there is none.
LastWrite(k) ==
  Max({0} \cup {i \in 1..Len(w_issued) : w_issued[i] = k})

\* C23: the inserts one caller issues for one key through one service take
\* effect in the order issued: after all have been processed, lookup of
\* the key gives the value of the last one.
C23_WriteOrder ==
  (w_service # None /\ w_pending = {}) =>
    \A k \in Keys :
      LastWrite(k) # 0 => lookup(w_service, k, MaxHops) = LastWrite(k)


\* C24: the stabilization loop never stops: a tick of _stabilize that
\* finds the successor dead skips the failure and leaves the loop running
\* for its next tick.
C24_LoopNeverStops ==
  [][\A n \in Hosts :
       (/\ successors[n][1] # None
        /\ ~reachable(successors[n][1])
        /\ Stabilize(n)) => loop'[n]]_vars


\* No tick of _check_ring_availability of any node can register a node or
\* make a node join any more.
DiscoveryQuiescent ==
  ~ENABLED <<\E n \in Hosts : CheckRing(n)>>_<<ring, ns_ring>>

\* C25: ring discovery through the name server: once the ticks of
\* _check_ring_availability have nothing left to do, chord.dht is bound
\* and every live node is the bound node or has joined the ring of the
\* binding.
C25_RingDiscovery ==
  (Up # {} /\ DiscoveryQuiescent) => (ns_ring # None /\ AllJoined)

\* The same as long as no node has died.
C25_NoDeath ==
  (Up = Hosts /\ DiscoveryQuiescent) => (ns_ring # None /\ AllJoined)


\* The id y lies strictly inside the open arc (l, r).
InOpenArc(y, l, r) == 0 < Clockwise(l, y) /\ Clockwise(l, y) < Clockwise(l, r)

\* C26: closest_preceding_node(x) on a live node returns the node itself
\* or a reachable node of its finger table or successor list whose id lies
\* strictly inside (self.id, x), never the node whose id is x.
C26_ClosestPreceding ==
  \A n \in Up : \A x \in IdSpace \ {id(n)} :
    LET c == closest_preceding_node(successors, n, x)
    IN \/ c = n
       \/ /\ c \in Hosts
          /\ reachable(c)
          /\ \/ \E j \in 1..M : finger_table[n][j] = c
             \/ \E j \in 1..R : successors[n][j] = c
          /\ InOpenArc(id(c), id(n), x)


\* How far the successor list of n is from its nearest reachable entry: R
\* when no entry is reachable.
NearestLive(n) ==
  LET live == {j \in 1..R : /\ successors[n][j] # None
                            /\ reachable(successors[n][j])}
  IN IF live = {} THEN R ELSE Min(live) - 1

\* C27: successor failover: a tick of _stabilize that finds the first
\* successor dead shifts the list to its nearest reachable entry, k places
\* (to all None when no entry is reachable), and claims the first k
\* replicas into the items of the node.
C27_SuccessorFailover ==
  [][\A n \in Hosts :
       (/\ successors[n][1] # None
        /\ ~reachable(successors[n][1])
        /\ Stabilize(n)) =>
         LET k == NearestLive(n)
         IN /\ items'[n] = ClaimItems(n, k)
            /\ k = R => successors'[n] = NoSuccessors
            /\ k < R => successors'[n][1] # None]_vars


\* C28: the successor list of every node has length R and its None
\* entries form a suffix: no entry follows a None entry.
C28_SuccessorListShape ==
  \A n \in Hosts :
    /\ DOMAIN successors[n] = 1..R
    /\ \A j \in 1..(R - 1) :
         successors[n][j] = None => successors[n][j + 1] = None

\* After a node died, a live node has a list with a live entry followed by
\* None.
C28_Witness ==
  \E n \in Up :
    /\ kills > 0
    /\ successors[n][1] \in Up \ {n}
    /\ successors[n][R] = None


\* The tick of _stabilize of node n reaches the reconciliation of the
\* successor list, where it calls refresh_replication: after the shift, if
\* any, the node has a successor other than itself.
Reconciles(n) ==
  LET s0 == successors[n][1]
      i == IF s0 # None /\ ~reachable(s0) THEN ShiftIndex(n) ELSE 0
  IN /\ s0 # None
     /\ i # ValueError
     /\ shift(successors[n], i)[1] \notin {None, n}

\* C29: replication mirror: when refresh_replication has run on a node
\* whose successors are all reachable, in a tick of _stabilize or called
\* after any history of claims, every replica is the items of the
\* successor of its index.
C29_ReplicationMirror ==
  [][\A n \in Hosts :
       (/\ \/ Stabilize(n) /\ Reconciles(n)
           \/ \E succs \in SuccessorLists :
                ServiceRefreshReplication(n, succs)
        /\ \A j \in 1..R : successors'[n][j] # None =>
                             host'[successors'[n][j]] = "up") =>
         \A j \in 1..R :
           successors'[n][j] # None =>
             replicated_items'[n][j] = items'[successors'[n][j]]]_vars


\* C30: refresh loses nothing: after refresh on a node of a stable ring,
\* every pair that was in the items of the node is stored at the owner of
\* its key.
C30_RefreshLosesNothing ==
  StableRing =>
    \A n \in Up : \A k \in Keys :
      items[n][k] # None =>
        refresh(items, successors, n)[Owner(Up, id(k))][k] = items[n][k]


\* C31: lookup of a key whose owner, as routing on the node gives it, is
\* unreachable, or for which routing gives no owner, returns the default
\* (None) to the caller and raises nothing.
C31_LookupUnreachableOwner ==
  \A n \in Up : \A k \in Keys :
    LET addr == find_successor(successors, n, id(k), MaxHops)
    IN (\/ addr = CommunicationError
        \/ (addr \in Hosts /\ addr # n /\ ~reachable(addr))) =>
         lookup(n, k, MaxHops) = None


C33_MasterWaitsForRequest ==
  (/\ start_pc # "idle"
   /\ in_flight = {}
   /\ get_serialized_functions(staged) # NoFunctions) =>
     (functions = "cached" /\ phase = "map")

\* C37: a Master that found both function blobs and no backup has taken
\* the whole chunk map of the request as its pending map tasks.
C37_NoPartialStaging ==
  (start_pc = "started" /\ ~master_backup.taken) =>
    loaded = <<"chunks", chunks_from(rq_input, ITEMS_PER_CHUNK)>>

\* C34: the reports of the map tasks are aggregated by key: after any
\* number of reports the pending reduce group holds, for each key, the
\* values the reported results hold for it, in the order of the reports.
C34_MapAggregation ==
  \A k \in EmitKeys :
    (IF k \in DOMAIN reduce_pending THEN reduce_pending[k] ELSE <<>>)
      = emitted[k]

\* A tick of the loop that finds an idle follower and no pending task in
\* the group of its phase while a task is still assigned. It leaves the
\* sets as they were only because no such tick is reachable: the first
\* assignment of a run ends the thread of the loop (worker.do raises).
TickWithoutTask ==
  [][\A worker \in Followers : \A up \in BOOLEAN : \A task_id \in TaskKeys :
       (/\ MasterLoop(worker, up, task_id)
        /\ phase' = phase
        /\ dicts[(IF phase = "map" THEN map_tasks
                  ELSE reduce_tasks).pending] = {}) =>
         UNCHANGED <<idle_followers, followers, dicts, map_tasks,
                     reduce_tasks>>]_vars

\* C35: an assignment tick takes a living follower out of the idle set
\* only when it hands it a task: the follower is busy afterwards and the
\* call that carries the task was made, the loop going on.
C35_IdleUntilHanded ==
  [][\A worker \in Followers : \A task_id \in TaskKeys :
       MasterLoop(worker, TRUE, task_id) =>
         \A f \in idle_followers :
           (follower_up[f] /\ f \notin idle_followers') =>
             (f \in followers' /\ phase' # "crashed")]_vars

\* C36: lookups that cross between two services do not block each other:
\* no two services each hold the lock of their own items while the call
\* each forwarded waits for the lock of the other, and no lookup ends
\* with the error of a call that timed out.
C36_NoCrossWait ==
  /\ \A i \in Lookups : \A j \in Lookups \ {i} :
       ~(/\ lk_pc[i] = "forward" /\ lk_pc[j] = "forward"
         /\ items_lock[lk_entry[i]] = i /\ items_lock[lk_entry[j]] = j
         /\ lk_owner[i] = lk_entry[j] /\ lk_owner[j] = lk_entry[i])
  /\ \A i \in Lookups : lk_pc[i] # "raised"

\* C38: the ring name stays usable: once the ticks of
\* _check_ring_availability have nothing left to do and a node that
\* joined the ring of the binding lives, the address bound to chord.dht
\* is that of a live node.
C38_RingNameUsable ==
  (/\ ns_ring # None
   /\ \E n \in Up : ring[n] = ns_ring
   /\ DiscoveryQuiescent) => ns_ring \in Up

\* C39: the claim and the refresh of the replicas do not race: once the
\* claim a tick sent has run, the items of the node hold every pair of
\* the replicas of the dead successors as they were when the tick found
\* them dead.
C39_ClaimBeforeRefresh ==
  \A n \in MirrorHosts :
    (host[n] = "up" /\ race_issued /\ "claim" \notin race_calls) =>
      \A k \in Keys :
        race_expected[k] # None => items[n][k] = race_expected[k]

\* C40: followers follow the Master: when the Master of another host has
\* taken over and started, and the announce loop of every living follower
\* has nothing left to do, every living follower is in the idle or the
\* busy set of that Master.
C40_FollowersFollowMaster ==
  (/\ master_kills > 0
   /\ phase # "off"
   /\ \A f \in Followers : follower_up[f] => announced[f]) =>
     \A f \in Followers :
       follower_up[f] => f \in idle_followers \cup followers

====
